---- MODULE Spec2Model ----
(***************************************************************************)
(* A model of the WebAssembly graph builder of v8-native-prototype          *)
(* (src/wasm/tf-builder.cc), of the opcode table that follows it in the    *)
(* same file, and of the test runner that drives both                      *)
(* (test-run-wasm: WasmRunner).                                            *)
(*                                                                         *)
(* The graph is a sequence of nodes; a node's identity is its position.    *)
(* Node 0 stands for nullptr.  Every node is a record                      *)
(*     [op, in, val, hi]                                                   *)
(* op  : the operator's mnemonic                                           *)
(* in  : the ordered inputs (value inputs, then effect, then control)      *)
(* val : the operator's parameter (constant value, parameter index,        *)
(*       declared input count of Merge/Phi/EffectPhi/End)                  *)
(* hi  : the high word of a 64-bit constant (val is then its low word)     *)
(***************************************************************************)
EXTENDS Integers, Sequences, FiniteSets, TLC

VARIABLES
    nodes,           \* compiler::Graph: the nodes created so far
    graph_start,     \* Graph::start()
    graph_end,       \* Graph::end()
    control,         \* *TFBuilder::control
    effect,          \* *TFBuilder::effect
    traps,           \* TFTrapHelper::traps[kTrapCount]
    effects,         \* TFTrapHelper::effects[kTrapCount]
    mem_buffer,      \* TFBuilder::mem_buffer
    mem_size,        \* TFBuilder::mem_size
    function_table,  \* TFBuilder::function_table
    fatal,           \* "" or the message of the V8_Fatal that ended the build
    module,          \* ModuleEnv the builder is bound to
    target,          \* build target: WASM_64 and the optional machine operators
    last,            \* the builder call that ran last, with the cursors before it
    env,             \* FunctionEnv of the test runner
    locals,          \* the locals handed out by WasmRunner::AllocateLocal, in order
    run,             \* one execution of the built graph
    decode,          \* one decode of a function body: byte cursor, open productions
    kSimpleExprSigTable,  \* the signature index of every opcode, 0 if unset
    threads          \* the WasmOpcodes::Signature call of each thread

vars == <<nodes, graph_start, graph_end, control, effect, traps, effects,
          mem_buffer, mem_size, function_table, fatal, module, target, last,
          env, locals, run, decode, kSimpleExprSigTable, threads>>

-----------------------------------------------------------------------------
(* Program constants                                                       *)

kMinInt == -2147483647 - 1

\* enum TrapReason, in declaration order
TrapReasons ==
    <<"Unreachable", "MemOutOfBounds", "DivByZero", "DivUnrepresentable",
      "RemByZero", "FloatUnrepresentable", "FuncInvalid", "FuncSigMismatch">>

TrapReasonSet == {TrapReasons[i] : i \in 1..Len(TrapReasons)}

\* index of a reason in the enum (selects kTrapMessages[reason])
TrapIndex(reason) == CHOOSE i \in 1..Len(TrapReasons) : TrapReasons[i] = reason

\* the word returned by a trap block: static_cast<int32_t>(0xdeadbeef)
kDeadBeef == -559038737

-----------------------------------------------------------------------------
(* The builder as a value.  Operators below take the builder record and   *)
(* return the builder after the call; field ret is the call's result.      *)

\* sequencing: the record v of one step is computed first, then named in
\* the steps K that follow it
Bind(v, K(_)) == CASE DOMAIN v # {} -> K(v)

Node(op, ins, val, hi) == [op |-> op, in |-> ins, val |-> val, hi |-> hi]

B ==
    [nodes |-> nodes, start |-> graph_start, end |-> graph_end,
     control |-> control, effect |-> effect, traps |-> traps,
     effects |-> effects, mem_buffer |-> mem_buffer, mem_size |-> mem_size,
     function_table |-> function_table, fatal |-> fatal, ret |-> 0]

SetB(b) ==
    /\ nodes' = b.nodes
    /\ graph_start' = b.start
    /\ graph_end' = b.end
    /\ control' = b.control
    /\ effect' = b.effect
    /\ traps' = b.traps
    /\ effects' = b.effects
    /\ mem_buffer' = b.mem_buffer
    /\ mem_size' = b.mem_size
    /\ function_table' = b.function_table
    /\ fatal' = b.fatal

\* Graph::NewNode(op, inputs...)
NewNodeV(b, op, ins, val, hi) ==
    [b EXCEPT !.nodes = Append(@, Node(op, ins, val, hi)),
              !.ret = Len(b.nodes) + 1]

NewNode(b, op, ins) == NewNodeV(b, op, ins, 0, 0)

\* JSGraph's constant cache: one node per operator and value
CachedConstant(b, op, val, hi) ==
    LET found == {i \in 1..Len(b.nodes) :
                     /\ b.nodes[i].op = op
                     /\ b.nodes[i].val = val
                     /\ b.nodes[i].hi = hi}
    IN IF found # {}
       THEN [b EXCEPT !.ret = CHOOSE i \in found : TRUE]
       ELSE NewNodeV(b, op, <<>>, val, hi)

Int32Constant(b, value) == CachedConstant(b, "Int32Constant", value, 0)

\* a 64-bit value is the pair of its signed high word and its low word
Int64Constant(b, value) ==
    CachedConstant(b, "Int64Constant", value[2], value[1])

\* int64 values used by the builder, as <<high word, low word>>
kMinInt64 == <<kMinInt, 0>>

I64(v) == <<IF v < 0 THEN -1 ELSE 0, v>>

\* V8_Fatal: the build ends; nothing else is emitted
Fatal(b, msg) == [b EXCEPT !.fatal = msg, !.ret = 0]

-----------------------------------------------------------------------------
(* tf-builder.cc: end of graph, merges                                     *)

\* an End made anew for every terminator
MergeControlToEndFresh(b, node) ==
    Bind(NewNodeV(b, "End", <<node>>, 1, 0), LAMBDA e :
    [e EXCEPT !.end = e.ret])

\* MergeControlToEnd(graph, node)
MergeControlToEnd(b, node) ==
    IF b.end # 0
    THEN [b EXCEPT !.nodes[b.end].in = Append(@, node),
                   !.nodes[b.end].val = Len(b.nodes[b.end].in) + 1]
    ELSE LET e == NewNodeV(b, "End", <<node>>, 1, 0)
         IN [e EXCEPT !.end = e.ret]

\* a merge that is not widened
AppendToMergeDropped(b, merge, from) == b

\* TFBuilder::AppendToMerge
AppendToMerge(b, merge, from) ==
    [b EXCEPT !.nodes[merge].in = Append(@, from),
              !.nodes[merge].val = Len(b.nodes[merge].in) + 1]

\* a phi whose new input lands behind its merge
AppendToPhiLast(b, merge, phi, from) ==
    [b EXCEPT !.nodes[phi].in = Append(@, from),
              !.nodes[phi].val = Len(b.nodes[phi].in)]

\* InsertInput before the last input (the merge); the operator is resized
\* to the input count the phi had before the insertion
AppendToPhi(b, merge, phi, from) ==
    LET old == b.nodes[phi].in
        n == Len(old)
    IN [b EXCEPT !.nodes[phi].in =
                     SubSeq(old, 1, n - 1) \o <<from>> \o <<old[n]>>,
                 !.nodes[phi].val = n]

-----------------------------------------------------------------------------
(* class TFTrapHelper                                                      *)

\* TFBuilder::String(kTrapMessages[reason]): a heap constant per message
String(b, reason) == CachedConstant(b, "HeapConstant", TrapIndex(reason), 0)

\* the call of Runtime::kThrow through the C entry stub, on the cursors of b
ThrowCall(b, exception) ==
    Bind(CachedConstant(b, "CEntryStubConstant", 1, 0), LAMBDA stub :
    Bind(CachedConstant(stub, "ExternalConstant", 0, 0), LAMBDA ref :
    Bind(Int32Constant(ref, 1), LAMBDA argc :
    Bind(CachedConstant(argc, "ContextConstant", 0, 0), LAMBDA ctx :
    Bind(CachedConstant(ctx, "EmptyFrameState", 0, 0), LAMBDA fs :
    Bind(NewNode(fs, "Call", <<stub.ret, exception, ref.ret, argc.ret,
                               ctx.ret, fs.ret, b.effect, b.control>>),
         LAMBDA call :
    [call EXCEPT !.control = call.ret, !.effect = call.ret]))))))

BuildTrapCode(b, reason) ==
    Bind(String(b, reason), LAMBDA exception :
    Bind(NewNodeV(exception, "Merge", <<b.control>>, 1, 0), LAMBDA merge :
    Bind(NewNodeV(merge, "EffectPhi", <<b.effect, merge.ret>>, 1, 0),
         LAMBDA phi :
    Bind([phi EXCEPT !.control = merge.ret, !.traps[reason] = merge.ret,
                     !.effect = phi.ret, !.effects[reason] = phi.ret],
         LAMBDA b1 :
    Bind(IF module.present /\ module.has_context
         THEN ThrowCall(b1, exception.ret)
         ELSE b1, LAMBDA b2 :
    \* if (false) Throw else Return(0xdeadbeef)
    Bind(Int32Constant(b2, kDeadBeef), LAMBDA k :
    Bind(NewNode(k, "Return", <<k.ret, b2.effect, b2.control>>), LAMBDA ret_dead :
    MergeControlToEnd(ret_dead, ret_dead.ret))))))))

ConnectTrap(b, reason) ==
    IF b.traps[reason] = 0
    THEN BuildTrapCode(b, reason)
    ELSE AppendToPhi(AppendToMerge(b, b.traps[reason], b.control),
                     b.traps[reason], b.effects[reason], b.effect)

\* a trap check that leaves the effect cursor in the trap block
AddTrapIfEffectKept(b, reason, cond, iftrue) ==
    Bind(NewNode(b, "Branch", <<cond, b.control>>), LAMBDA branch :
    Bind(NewNode(branch, "IfTrue", <<branch.ret>>), LAMBDA if_true :
    Bind(NewNode(if_true, "IfFalse", <<branch.ret>>), LAMBDA if_false :
    Bind(ConnectTrap([if_false EXCEPT !.control = IF iftrue THEN if_true.ret
                                                 ELSE if_false.ret], reason),
         LAMBDA connected :
    [connected EXCEPT !.control = IF iftrue THEN if_false.ret
                                  ELSE if_true.ret]))))

\* TFTrapHelper::AddTrapIf
AddTrapIf(b, reason, cond, iftrue) ==
    Bind(NewNode(b, "Branch", <<cond, b.control>>), LAMBDA branch :
    Bind(NewNode(branch, "IfTrue", <<branch.ret>>), LAMBDA if_true :
    Bind(NewNode(if_true, "IfFalse", <<branch.ret>>), LAMBDA if_false :
    Bind(ConnectTrap([if_false EXCEPT !.control = IF iftrue THEN if_true.ret
                                                 ELSE if_false.ret], reason),
         LAMBDA connected :
    [connected EXCEPT !.control = IF iftrue THEN if_false.ret ELSE if_true.ret,
                      !.effect = b.effect]))))

\* the builder with its control cursor as the result
ReturnControl(b) == [b EXCEPT !.ret = b.control]

TrapIfEq32(b, reason, node, value) ==
    \* Int32Matcher m(node); m.HasValue() && !m.Is(val)
    IF b.nodes[node].op = "Int32Constant" /\ b.nodes[node].val # value
    THEN [b EXCEPT !.ret = b.start]
    ELSE IF value = 0
         THEN ReturnControl(AddTrapIf(b, reason, node, FALSE))
         ELSE Bind(Int32Constant(b, value), LAMBDA k :
              Bind(NewNode(k, "Word32Equal", <<node, k.ret>>), LAMBDA eq :
              ReturnControl(AddTrapIf(eq, reason, eq.ret, TRUE))))

TrapIfEq64(b, reason, node, value) ==
    \* Int64Matcher m(node); m.HasValue() && !m.Is(val)
    IF /\ b.nodes[node].op = "Int64Constant"
       /\ <<b.nodes[node].hi, b.nodes[node].val>> # value
    THEN [b EXCEPT !.ret = b.start]
    ELSE Bind(Int64Constant(b, value), LAMBDA k :
         Bind(NewNode(k, "Word64Equal", <<node, k.ret>>), LAMBDA eq :
         ReturnControl(AddTrapIf(eq, reason, eq.ret, TRUE))))

-----------------------------------------------------------------------------
(* TFBuilder: control primitives                                           *)

\* TFBuilder::Branch: ret is the branch, true_node and false_node its projections
Branch(b, cond) ==
    Bind(NewNode(b, "Branch", <<cond, b.control>>), LAMBDA branch :
    Bind(NewNode(branch, "IfTrue", <<branch.ret>>), LAMBDA if_true :
    Bind(NewNode(if_true, "IfFalse", <<branch.ret>>), LAMBDA if_false :
    [b |-> [if_false EXCEPT !.ret = branch.ret],
     true_node |-> if_true.ret, false_node |-> if_false.ret])))

\* TFBuilder::Return(count, vals), for a count whose count + 2 slots fit the
\* builder's buffer, so that Realloc hands back vals itself
Return(b, vals) ==
    Bind(IF vals = <<>> THEN Int32Constant(b, 0) ELSE b, LAMBDA v :
    Bind(NewNode(v, "Return",
                 (IF vals = <<>> THEN <<v.ret>> ELSE vals)
                     \o <<b.effect, b.control>>), LAMBDA r :
    [MergeControlToEnd(r, r.ret) EXCEPT !.ret = r.ret]))

\* compiler::Diamond(graph, common, cond): a branch on graph->start() with its
\* two projections and their merge; Binop never chains it to the control cursor
Diamond(b, cond) ==
    Bind(NewNode(b, "Branch", <<cond, b.start>>), LAMBDA branch :
    Bind(NewNode(branch, "IfTrue", <<branch.ret>>), LAMBDA if_true :
    Bind(NewNode(if_true, "IfFalse", <<branch.ret>>), LAMBDA if_false :
    Bind(NewNodeV(if_false, "Merge", <<if_true.ret, if_false.ret>>, 2, 0),
         LAMBDA merge :
    [b |-> merge, branch |-> branch.ret, if_true |-> if_true.ret,
     if_false |-> if_false.ret, merge |-> merge.ret]))))

\* Diamond::Phi(rep, tv, fv), on the builder b
DiamondPhi(b, d, tv, fv) == NewNodeV(b, "Phi", <<tv, fv, d.merge>>, 2, 0)

\* TFBuilder::Switch(count, key): a Switch(count) on the control cursor
Switch(b, count, key) == NewNodeV(b, "Switch", <<key, b.control>>, count, 0)

\* an IfValue whose value is lost
IfValueZero(b, value, sw) == NewNodeV(b, "IfValue", <<sw>>, 0, 0)

\* TFBuilder::IfValue(value, sw)
IfValue(b, value, sw) == NewNodeV(b, "IfValue", <<sw>>, value, 0)

\* TFBuilder::IfDefault(sw)
IfDefault(b, sw) == NewNode(b, "IfDefault", <<sw>>)

\* TFBuilder::Merge(count, controls)
Merge(b, controls) == NewNodeV(b, "Merge", controls, Len(controls), 0)

\* TFBuilder::Loop(entry): a Loop(1) on the entry control
Loop(b, entry) == NewNodeV(b, "Loop", <<entry>>, 1, 0)

\* TFBuilder::Phi(type, count, vals, control): buf[count] = control
Phi(b, vals, ctl) == NewNodeV(b, "Phi", Append(vals, ctl), Len(vals), 0)

\* TFBuilder::EffectPhi(count, effects, control)
EffectPhi(b, effs, ctl) ==
    NewNodeV(b, "EffectPhi", Append(effs, ctl), Len(effs), 0)

\* TFBuilder::Terminate(effect, control)
Terminate(b, eff, ctl) ==
    Bind(NewNode(b, "Terminate", <<eff, ctl>>), LAMBDA t :
    [MergeControlToEnd(t, t.ret) EXCEPT !.ret = t.ret])

\* TFBuilder::ReturnVoid() == Return(0, Buffer(0))
ReturnVoid(b) == Return(b, <<>>)

\* TFBuilder::Unreachable(): the control path is connected to the trap block
\* of kTrapUnreachable; the result is nullptr
Unreachable(b) == [ConnectTrap(b, "Unreachable") EXCEPT !.ret = 0]

-----------------------------------------------------------------------------
(* TFBuilder::Binop: integer division and remainder                        *)

\* the machine operator of the word size: Word32Equal, Int64Div, Uint32Mod
MachineOp(kind, w, name) == kind \o (IF w = 32 THEN "32" ELSE "64") \o name

\* TFTrapHelper::ZeroCheck32 / ZeroCheck64
ZeroCheck(b, w, reason, node) ==
    IF w = 32 THEN TrapIfEq32(b, reason, node, 0)
    ELSE TrapIfEq64(b, reason, node, I64(0))

\* graph->Int32Constant(lo) or graph->Int64Constant(hi:lo)
WordConstant(b, w, lo, hi) ==
    IF w = 32 THEN Int32Constant(b, lo) ELSE Int64Constant(b, <<hi, lo>>)

\* signed division guarded by the zero check alone
BinopDivSZeroCheckOnly(b, w, left, right) ==
    Bind(ZeroCheck(b, w, "DivByZero", right), LAMBDA z :
    NewNode(z, MachineOp("Int", w, "Div"), <<left, right, z.ret>>))

\* a signed division that stays on the divisor == -1 path when the INT_MIN
\* check is elided
BinopDivSOnMinusOne(b, w, left, right) ==
    Bind(ZeroCheck(b, w, "DivByZero", right), LAMBDA before :
    Bind(WordConstant(before, w, -1, -1), LAMBDA k :
    Bind(NewNode(k, MachineOp("Word", w, "Equal"), <<right, k.ret>>), LAMBDA eq :
    Bind(Branch(eq, eq.ret), LAMBDA br :
    Bind(IF w = 32
         THEN TrapIfEq32([br.b EXCEPT !.control = br.true_node],
                         "DivUnrepresentable", left, kMinInt)
         ELSE TrapIfEq64([br.b EXCEPT !.control = br.true_node],
                         "DivUnrepresentable", left, kMinInt64), LAMBDA t :
    Bind(IF t.control # br.true_node
         THEN NewNodeV(t, "Merge", <<br.false_node, t.control>>, 2, 0)
         ELSE [t EXCEPT !.ret = br.true_node], LAMBDA m :
    NewNode([m EXCEPT !.control = m.ret], MachineOp("Int", w, "Div"),
            <<left, right, m.ret>>)))))))

\* case kExprI32DivS / kExprI64DivS
BinopDivS(b, w, left, right) ==
    Bind(ZeroCheck(b, w, "DivByZero", right), LAMBDA before :
    Bind(WordConstant(before, w, -1, -1), LAMBDA k :
    Bind(NewNode(k, MachineOp("Word", w, "Equal"), <<right, k.ret>>), LAMBDA eq :
    Bind(Branch(eq, eq.ret), LAMBDA br :
    Bind(IF w = 32
         THEN TrapIfEq32([br.b EXCEPT !.control = br.true_node],
                         "DivUnrepresentable", left, kMinInt)
         ELSE TrapIfEq64([br.b EXCEPT !.control = br.true_node],
                         "DivUnrepresentable", left, kMinInt64), LAMBDA t :
    Bind(IF t.control # br.true_node
         THEN NewNodeV(t, "Merge", <<br.false_node, t.control>>, 2, 0)
         ELSE [t EXCEPT !.ret = before.control], LAMBDA m :
    NewNode([m EXCEPT !.control = m.ret], MachineOp("Int", w, "Div"),
            <<left, right, m.ret>>)))))))

\* case kExprI32DivU / kExprI64DivU
BinopDivU(b, w, left, right) ==
    Bind(ZeroCheck(b, w, "DivByZero", right), LAMBDA z :
    NewNode(z, MachineOp("Uint", w, "Div"), <<left, right, z.ret>>))

\* case kExprI32RemS / kExprI64RemS
BinopRemS(b, w, left, right) ==
    Bind(ZeroCheck(b, w, "RemByZero", right), LAMBDA z :
    Bind(WordConstant(z, w, -1, -1), LAMBDA k :
    Bind(NewNode(k, MachineOp("Word", w, "Equal"), <<right, k.ret>>), LAMBDA eq :
    Bind(Diamond(eq, eq.ret), LAMBDA d :
    Bind(NewNode(d.b, MachineOp("Int", w, "Mod"), <<left, right, d.if_false>>), LAMBDA rem :
    Bind(WordConstant(rem, w, 0, 0), LAMBDA zero :
    DiamondPhi(zero, d, zero.ret, rem.ret)))))))

\* an unsigned remainder whose zero check traps as a division
BinopRemUAsDiv(b, w, left, right) ==
    Bind(ZeroCheck(b, w, "DivByZero", right), LAMBDA z :
    NewNode(z, MachineOp("Uint", w, "Mod"), <<left, right, z.ret>>))

\* case kExprI32RemU / kExprI64RemU
BinopRemU(b, w, left, right) ==
    Bind(ZeroCheck(b, w, "RemByZero", right), LAMBDA z :
    NewNode(z, MachineOp("Uint", w, "Mod"), <<left, right, z.ret>>))

-----------------------------------------------------------------------------
(* WasmOpcodes::IsSupported and the operator selection of Binop and Unop   *)

\* opcodes IsSupported rejects in every build
NeverSupported ==
    {"I32Clz", "I32Ctz", "I32Popcnt", "I64Clz", "I64Ctz", "I64Popcnt",
     "F32Min", "F32Max", "F32CopySign", "F32Ceil", "F32Floor", "F32Trunc",
     "F32NearestInt", "F64Min", "F64Max", "F64CopySign", "F64Ceil",
     "F64Floor", "F64Trunc", "F64NearestInt", "I64SConvertF32",
     "I64SConvertF64", "I64UConvertF32", "I64UConvertF64", "F32SConvertI64",
     "F32UConvertI64", "F64SConvertI64", "F64UConvertI64"}

\* opcodes IsSupported rejects when WASM_64 is 0
NotOn32Bit ==
    {"I64Add", "I64Sub", "I64Mul", "I64DivS", "I64DivU", "I64RemS", "I64RemU",
     "I64And", "I64Ior", "I64Xor", "I64Shl", "I64ShrU", "I64ShrS", "I64Ror",
     "I64Rol", "I64Eq", "I64Ne", "I64LtS", "I64LeS", "I64LtU", "I64LeU",
     "I64GtS", "I64GeS", "I64GtU", "I64GeU", "I32ConvertI64",
     "I64SConvertI32", "I64UConvertI32", "F64ReinterpretI64",
     "I64ReinterpretF64", "ResizeMemH"}

IsSupported(opcode) ==
    ~(\/ opcode \in NeverSupported
      \/ ~target.wasm_64 /\ opcode \in NotOn32Bit)

\* Binop cases of the form  op = m->X(); break;  (swap: std::swap(left, right))
BinopOps32 ==
    [I32Add |-> <<"Int32Add", FALSE>>, I32Sub |-> <<"Int32Sub", FALSE>>,
     I32Mul |-> <<"Int32Mul", FALSE>>, I32And |-> <<"Word32And", FALSE>>,
     I32Ior |-> <<"Word32Or", FALSE>>, I32Xor |-> <<"Word32Xor", FALSE>>,
     I32Shl |-> <<"Word32Shl", FALSE>>, I32ShrU |-> <<"Word32Shr", FALSE>>,
     I32ShrS |-> <<"Word32Sar", FALSE>>, I32Eq |-> <<"Word32Equal", FALSE>>,
     I32LtS |-> <<"Int32LessThan", FALSE>>,
     I32LeS |-> <<"Int32LessThanOrEqual", FALSE>>,
     I32LtU |-> <<"Uint32LessThan", FALSE>>,
     I32LeU |-> <<"Uint32LessThanOrEqual", FALSE>>,
     I32GtS |-> <<"Int32LessThan", TRUE>>,
     I32GeS |-> <<"Int32LessThanOrEqual", TRUE>>,
     I32GtU |-> <<"Uint32LessThan", TRUE>>,
     I32GeU |-> <<"Uint32LessThanOrEqual", TRUE>>,
     F32Add |-> <<"Float32Add", FALSE>>, F32Sub |-> <<"Float32Sub", FALSE>>,
     F32Mul |-> <<"Float32Mul", FALSE>>, F32Div |-> <<"Float32Div", FALSE>>,
     F32Eq |-> <<"Float32Equal", FALSE>>, F32Lt |-> <<"Float32LessThan", FALSE>>,
     F32Ge |-> <<"Float32LessThanOrEqual", TRUE>>,
     F32Gt |-> <<"Float32LessThan", TRUE>>,
     F32Le |-> <<"Float32LessThanOrEqual", FALSE>>,
     F64Add |-> <<"Float64Add", FALSE>>, F64Sub |-> <<"Float64Sub", FALSE>>,
     F64Mul |-> <<"Float64Mul", FALSE>>, F64Div |-> <<"Float64Div", FALSE>>,
     F64Eq |-> <<"Float64Equal", FALSE>>, F64Lt |-> <<"Float64LessThan", FALSE>>,
     F64Le |-> <<"Float64LessThanOrEqual", FALSE>>,
     F64Gt |-> <<"Float64LessThan", TRUE>>,
     F64Ge |-> <<"Float64LessThanOrEqual", TRUE>>]

\* the same, inside #if WASM_64
BinopOps64 ==
    [I64Add |-> <<"Int64Add", FALSE>>, I64Sub |-> <<"Int64Sub", FALSE>>,
     I64Mul |-> <<"Int64Mul", FALSE>>, I64And |-> <<"Word64And", FALSE>>,
     I64Ior |-> <<"Word64Or", FALSE>>, I64Xor |-> <<"Word64Xor", FALSE>>,
     I64Shl |-> <<"Word64Shl", FALSE>>, I64ShrU |-> <<"Word64Shr", FALSE>>,
     I64ShrS |-> <<"Word64Sar", FALSE>>, I64Eq |-> <<"Word64Equal", FALSE>>,
     I64LtS |-> <<"Int64LessThan", FALSE>>,
     I64LeS |-> <<"Int64LessThanOrEqual", FALSE>>,
     I64LtU |-> <<"Uint64LessThan", FALSE>>,
     I64LeU |-> <<"Uint64LessThanOrEqual", FALSE>>,
     I64GtS |-> <<"Int64LessThan", TRUE>>,
     I64GeS |-> <<"Int64LessThanOrEqual", TRUE>>,
     I64GtU |-> <<"Uint64LessThan", TRUE>>,
     I64GeU |-> <<"Uint64LessThanOrEqual", TRUE>>]

\* Binop and Unop cases guarded by m->X().IsSupported()
OptionalOps ==
    [F32Min |-> "Float32Min", F64Min |-> "Float64Min",
     F32Max |-> "Float32Max", F64Max |-> "Float64Max",
     F32Floor |-> "Float32RoundDown", F32Ceil |-> "Float32RoundUp",
     F32Trunc |-> "Float32RoundTruncate",
     F32NearestInt |-> "Float32RoundTiesEven",
     F64Floor |-> "Float64RoundDown", F64Ceil |-> "Float64RoundUp",
     F64Trunc |-> "Float64RoundTruncate",
     F64NearestInt |-> "Float64RoundTiesEven",
     I32Ctz |-> "Word32Ctz", I32Popcnt |-> "Word32Popcnt",
     I64Ctz |-> "Word64Ctz", I64Popcnt |-> "Word64Popcnt"]

\* Unop cases: the machine operators applied to the input, in order
UnopOps32 ==
    [F32Abs |-> <<"Float32Abs">>, F32Sqrt |-> <<"Float32Sqrt">>,
     F64Abs |-> <<"Float64Abs">>, F64Sqrt |-> <<"Float64Sqrt">>,
     I32SConvertF64 |-> <<"ChangeFloat64ToInt32">>,
     I32UConvertF64 |-> <<"ChangeFloat64ToUint32">>,
     F32ConvertF64 |-> <<"TruncateFloat64ToFloat32">>,
     F64SConvertI32 |-> <<"ChangeInt32ToFloat64">>,
     F64UConvertI32 |-> <<"ChangeUint32ToFloat64">>,
     F32SConvertI32 |-> <<"ChangeInt32ToFloat64", "TruncateFloat64ToFloat32">>,
     F32UConvertI32 |-> <<"ChangeUint32ToFloat64", "TruncateFloat64ToFloat32">>,
     I32SConvertF32 |-> <<"ChangeFloat32ToFloat64", "ChangeFloat64ToInt32">>,
     I32UConvertF32 |-> <<"ChangeFloat32ToFloat64", "ChangeFloat64ToUint32">>,
     F64ConvertF32 |-> <<"ChangeFloat32ToFloat64">>,
     F32ReinterpretI32 |-> <<"BitcastInt32ToFloat32">>,
     I32ReinterpretF32 |-> <<"BitcastFloat32ToInt32">>,
     I32Clz |-> <<"Word32Clz">>]

\* the same, inside #if WASM_64
UnopOps64 ==
    [I32ConvertI64 |-> <<"TruncateInt64ToInt32">>,
     I64SConvertI32 |-> <<"ChangeInt32ToInt64">>,
     I64UConvertI32 |-> <<"ChangeUint32ToUint64">>,
     F32SConvertI64 |-> <<"RoundInt64ToFloat32">>,
     F32UConvertI64 |-> <<"RoundUint64ToFloat32">>,
     F64SConvertI64 |-> <<"RoundInt64ToFloat64">>,
     F64UConvertI64 |-> <<"RoundUint64ToFloat64">>,
     F64ReinterpretI64 |-> <<"BitcastInt64ToFloat64">>,
     I64ReinterpretF64 |-> <<"BitcastFloat64ToInt64">>,
     I64Clz |-> <<"Word64Clz">>]

UnsupportedOpcode(b, opcode) ==
    IF IsSupported(opcode)
    THEN Fatal(b, "Unsupported opcode reported as supported")
    ELSE Fatal(b, "Unsupported opcode")

-----------------------------------------------------------------------------
(* TFBuilder::Binop, TFBuilder::Unop and the lowered operators             *)

RECURSIVE Binop(_, _, _, _), Unop(_, _, _)

\* the word width of a kExprI32... or kExprI64... opcode
WordWidth(opcode) == IF SubSeq(opcode, 1, 3) = "I32" THEN 32 ELSE 64

\* kExprI32<name> or kExprI64<name>
WasmOp(w, name) == (IF w = 32 THEN "I32" ELSE "I64") \o name

\* The lowered bit-counting sequences are straight-line code: a step is
\* <<"const", lo, hi>>, a word constant, or <<name, i, j>>, the Binop of
\* kExpr<I32|I64><name> on the results i and j steps back (1 is the latest).
RECURSIVE RunSteps(_, _, _, _)
RunSteps(b, w, steps, regs) ==
    IF steps = <<>> THEN [b EXCEPT !.ret = regs[Len(regs)]]
    ELSE Bind(IF Head(steps)[1] = "const"
              THEN WordConstant(b, w, Head(steps)[2], Head(steps)[3])
              ELSE Binop(b, WasmOp(w, Head(steps)[1]),
                         regs[Len(regs) + 1 - Head(steps)[2]],
                         regs[Len(regs) + 1 - Head(steps)[3]]), LAMBDA r :
         RunSteps(r, w, Tail(steps), Append(regs, r.ret)))

\* a population-count step that leaves the shifted operand unmasked
PopcntStepUnmasked(shift, lo, hi) ==
    <<<<"const", shift, 0>>, <<"ShrU", 2, 1>>, <<"const", lo, hi>>,
      <<"And", 4, 1>>, <<"Add", 3, 1>>>>

\* a smear towards the low bits
SmearStepRight(shift) ==
    <<<<"const", shift, 0>>, <<"ShrU", 2, 1>>, <<"Ior", 3, 1>>>>

\* value = ((value >> shift) & mask) + (value & mask)
PopcntStep(shift, lo, hi) ==
    <<<<"const", shift, 0>>, <<"ShrU", 2, 1>>, <<"const", lo, hi>>,
      <<"And", 2, 1>>, <<"const", lo, hi>>, <<"And", 6, 1>>, <<"Add", 3, 1>>>>

\* the high word of a mask: the 64-bit masks repeat the 32-bit ones
MaskHi(w, lo) == IF w = 32 THEN 0 ELSE lo

\* TFBuilder::MakeI32Popcnt / MakeI64Popcnt
MakePopcnt(b, w, input) ==
    RunSteps(b, w,
             PopcntStep(1, 1431655765, MaskHi(w, 1431655765)) \o
             PopcntStep(2, 858993459, MaskHi(w, 858993459)) \o
             PopcntStep(4, 252645135, MaskHi(w, 252645135)) \o
             PopcntStep(8, 16711935, MaskHi(w, 16711935)) \o
             PopcntStep(16, 65535, MaskHi(w, 65535)) \o
             (IF w = 32 THEN <<>> ELSE PopcntStep(32, -1, 0)),
             <<input>>)

\* value = value | (value << shift)
SmearStep(shift) == <<<<"const", shift, 0>>, <<"Shl", 2, 1>>, <<"Ior", 3, 1>>>>

\* TFBuilder::MakeI32Ctz / MakeI64Ctz: the population count of
\* 0xff..ff XOR the smeared value
MakeCtz(b, w, input) ==
    Bind(RunSteps(b, w,
                  SmearStep(1) \o SmearStep(2) \o SmearStep(4) \o
                  SmearStep(8) \o SmearStep(16) \o
                  (IF w = 32 THEN <<>> ELSE SmearStep(32)) \o
                  <<<<"const", -1, -1>>, <<"Xor", 1, 2>>>>,
                  <<input>>), LAMBDA x :
    MakePopcnt(x, w, x.ret))

\* TFBuilder::MakeF32CopySign
MakeF32CopySign(b, left, right) ==
    Bind(Unop(b, "I32ReinterpretF32", left), LAMBDA l :
    Bind(Int32Constant(l, 2147483647), LAMBDA c1 :
    Bind(Binop(c1, "I32And", l.ret, c1.ret), LAMBDA a1 :
    Bind(Unop(a1, "I32ReinterpretF32", right), LAMBDA r :
    Bind(Int32Constant(r, kMinInt), LAMBDA c2 :
    Bind(Binop(c2, "I32And", r.ret, c2.ret), LAMBDA a2 :
    Bind(Binop(a2, "I32Ior", a1.ret, a2.ret), LAMBDA o :
    Unop(o, "F32ReinterpretI32", o.ret))))))))

\* TFBuilder::MakeF64CopySign
MakeF64CopySign(b, left, right) ==
    IF target.wasm_64
    THEN Bind(Unop(b, "I64ReinterpretF64", left), LAMBDA l :
         Bind(Int64Constant(l, <<2147483647, -1>>), LAMBDA c1 :
         Bind(Binop(c1, "I64And", l.ret, c1.ret), LAMBDA a1 :
         Bind(Unop(a1, "I64ReinterpretF64", right), LAMBDA r :
         Bind(Int64Constant(r, <<kMinInt, 0>>), LAMBDA c2 :
         Bind(Binop(c2, "I64And", r.ret, c2.ret), LAMBDA a2 :
         Bind(Binop(a2, "I64Ior", a1.ret, a2.ret), LAMBDA o :
         Unop(o, "F64ReinterpretI64", o.ret))))))))
    ELSE Bind(NewNode(b, "Float64ExtractHighWord32", <<left>>), LAMBDA hl :
         Bind(NewNode(hl, "Float64ExtractHighWord32", <<right>>), LAMBDA hr :
         Bind(Int32Constant(hr, 2147483647), LAMBDA c1 :
         Bind(Binop(c1, "I32And", hl.ret, c1.ret), LAMBDA a1 :
         Bind(Int32Constant(a1, kMinInt), LAMBDA c2 :
         Bind(Binop(c2, "I32And", hr.ret, c2.ret), LAMBDA a2 :
         Bind(Binop(a2, "I32Ior", a1.ret, a2.ret), LAMBDA o :
         NewNode(o, "Float64InsertHighWord32", <<left, o.ret>>))))))))

\* TFBuilder::Invert(node) == Unop(kExprBoolNot, node)
Invert(b, node) ==
    Bind(Int32Constant(b, 0), LAMBDA k :
    NewNode(k, "Word32Equal", <<node, k.ret>>))

\* graph()->NewNode(op2, graph()->NewNode(op1, input)) of the two-step
\* conversions, or the single operator
UnopChain(b, ops, input) ==
    IF Len(ops) = 2
    THEN Bind(NewNode(b, ops[1], <<input>>), LAMBDA first :
         NewNode(first, ops[2], <<first.ret>>))
    ELSE NewNode(b, ops[1], <<input>>)

\* Unop(kExprF32Neg / kExprF64Neg): 0 - input
UnopNeg(b, f, input) ==
    Bind(CachedConstant(b, f \o "Constant", 0, 0), LAMBDA k :
    NewNode(k, f \o "Sub", <<k.ret, input>>))

\* Binop(kExprI32Ne, ...): Invert of the equality
BinopNe(b, op, left, right) ==
    Bind(NewNode(b, op, <<left, right>>), LAMBDA eq :
    Invert(eq, eq.ret))

Unop(b, opcode, input) ==
    CASE opcode = "BoolNot" -> Invert(b, input)
      [] opcode = "F32Neg" -> UnopNeg(b, "Float32", input)
      [] opcode = "F64Neg" -> UnopNeg(b, "Float64", input)
      [] opcode \in DOMAIN UnopOps32 -> UnopChain(b, UnopOps32[opcode], input)
      [] \/ opcode \in {"I32Ctz", "I32Popcnt"}
         \/ target.wasm_64 /\ opcode \in {"I64Ctz", "I64Popcnt"} ->
            IF OptionalOps[opcode] \in target.machine
            THEN NewNode(b, OptionalOps[opcode], <<input>>)
            ELSE IF opcode \in {"I32Ctz", "I64Ctz"}
                 THEN MakeCtz(b, WordWidth(opcode), input)
                 ELSE MakePopcnt(b, WordWidth(opcode), input)
      [] opcode \in {"F32Floor", "F32Ceil", "F32Trunc", "F32NearestInt",
                     "F64Floor", "F64Ceil", "F64Trunc", "F64NearestInt"} ->
            IF OptionalOps[opcode] \in target.machine
            THEN NewNode(b, OptionalOps[opcode], <<input>>)
            ELSE UnsupportedOpcode(b, opcode)
      [] target.wasm_64 /\ opcode \in DOMAIN UnopOps64 ->
            NewNode(b, UnopOps64[opcode][1], <<input>>)
      [] OTHER -> UnsupportedOpcode(b, opcode)

Binop(b, opcode, left, right) ==
    CASE opcode = "I32DivS" -> BinopDivS(b, 32, left, right)
      [] opcode = "I32DivU" -> BinopDivU(b, 32, left, right)
      [] opcode = "I32RemS" -> BinopRemS(b, 32, left, right)
      [] opcode = "I32RemU" -> BinopRemU(b, 32, left, right)
      [] opcode = "I32Ne" -> BinopNe(b, "Word32Equal", left, right)
      [] opcode = "F32Ne" -> BinopNe(b, "Float32Equal", left, right)
      [] opcode = "F64Ne" -> BinopNe(b, "Float64Equal", left, right)
      [] opcode \in DOMAIN BinopOps32 ->
            IF BinopOps32[opcode][2]
            THEN NewNode(b, BinopOps32[opcode][1], <<right, left>>)
            ELSE NewNode(b, BinopOps32[opcode][1], <<left, right>>)
      [] target.wasm_64 /\ opcode = "I64DivS" -> BinopDivS(b, 64, left, right)
      [] target.wasm_64 /\ opcode = "I64DivU" -> BinopDivU(b, 64, left, right)
      [] target.wasm_64 /\ opcode = "I64RemS" -> BinopRemS(b, 64, left, right)
      [] target.wasm_64 /\ opcode = "I64RemU" -> BinopRemU(b, 64, left, right)
      [] target.wasm_64 /\ opcode = "I64Ne" ->
            BinopNe(b, "Word64Equal", left, right)
      [] target.wasm_64 /\ opcode \in DOMAIN BinopOps64 ->
            IF BinopOps64[opcode][2]
            THEN NewNode(b, BinopOps64[opcode][1], <<right, left>>)
            ELSE NewNode(b, BinopOps64[opcode][1], <<left, right>>)
      [] opcode = "F32CopySign" -> MakeF32CopySign(b, left, right)
      [] opcode = "F64CopySign" -> MakeF64CopySign(b, left, right)
      [] opcode \in {"F32Min", "F64Min", "F32Max", "F64Max"} ->
            IF OptionalOps[opcode] \in target.machine
            THEN NewNode(b, OptionalOps[opcode], <<left, right>>)
            ELSE UnsupportedOpcode(b, opcode)
      [] OTHER -> UnsupportedOpcode(b, opcode)

-----------------------------------------------------------------------------
(* TFBuilder: linear memory.  uint32_t values are kept as the int32 with   *)
(* the same bits; the memory size mem_end - mem_start is below 2^31.        *)

\* enum MemType, in the order of WasmOpcodes::TypeName
MemTypes ==
    <<"I8", "U8", "I16", "U16", "I32", "U32", "I64", "U64", "F32", "F64">>

\* MachineTypeFor(memtype), as the position of the type in the enum
MachineTypeFor(memtype) ==
    CHOOSE i \in 1..Len(MemTypes) : MemTypes[i] = memtype

\* WasmOpcodes::MemSize(memtype): the access width in bytes
WasmOpcodesMemSize(memtype) ==
    CASE memtype \in {"I8", "U8"} -> 1
      [] memtype \in {"I16", "U16"} -> 2
      [] memtype \in {"I32", "U32", "F32"} -> 4
      [] memtype \in {"I64", "U64", "F64"} -> 8

\* unsigned a <= b on 32-bit words
Uint32LessThanOrEqual(a, b) ==
    IF (a < 0) = (b < 0) THEN a <= b ELSE b < 0

\* uint32_t offset + memsize: the sum modulo 2^32, for 0 <= memsize <= 8
AddUint32(offset, memsize) ==
    IF offset > 2147483647 - memsize
    THEN (offset + kMinInt) + (memsize + kMinInt)
    ELSE offset + memsize

\* graph->IntPtrConstant(module->mem_start + offset), named by the offset
\* from mem_start
MemBuffer(b, offset) ==
    IF ~module.present THEN Fatal(b, "null module")
    ELSE IF offset = 0
         THEN IF b.mem_buffer = 0
              THEN Bind(CachedConstant(b, "IntPtrConstant", 0, 0), LAMBDA k :
                   [k EXCEPT !.mem_buffer = k.ret])
              ELSE [b EXCEPT !.ret = b.mem_buffer]
         ELSE CachedConstant(b, "IntPtrConstant", offset, 0)

MemSize(b, offset) ==
    IF ~module.present THEN Fatal(b, "null module")
    ELSE IF offset = 0
         THEN IF b.mem_size = 0
              THEN Bind(Int32Constant(b, module.size), LAMBDA k :
                   [k EXCEPT !.mem_size = k.ret])
              ELSE [b EXCEPT !.ret = b.mem_size]
         ELSE Int32Constant(b, module.size + offset)

\* the condition node of BoundsCheckMem
\* a check against a limit that leaves out the access width
BoundsCheckCondNoWidth(b, memsize, index, offset) ==
    IF \/ Uint32LessThanOrEqual(module.size, offset)
       \/ Uint32LessThanOrEqual(module.size, AddUint32(offset, memsize))
    THEN Int32Constant(b, 0)
    ELSE Bind(Int32Constant(b, module.size - offset), LAMBDA limit :
         NewNode(limit, "Uint32LessThanOrEqual", <<index, limit.ret>>))

BoundsCheckCond(b, memsize, index, offset) ==
    IF \/ Uint32LessThanOrEqual(module.size, offset)
       \/ Uint32LessThanOrEqual(module.size, AddUint32(offset, memsize))
    THEN Int32Constant(b, 0)
    ELSE Bind(Int32Constant(b, module.size - offset - memsize), LAMBDA limit :
         NewNode(limit, "Uint32LessThanOrEqual", <<index, limit.ret>>))

\* a memory access whose bounds check was left out
BoundsCheckMemOmitted(b, memtype, index, offset) == b

\* module->mem_end of a null module ends the build with a fault
BoundsCheckMem(b, memtype, index, offset) ==
    IF ~module.present THEN Fatal(b, "null module")
    ELSE Bind(BoundsCheckCond(b, WasmOpcodesMemSize(memtype), index, offset),
              LAMBDA cond :
         AddTrapIf(cond, "MemOutOfBounds", cond.ret, FALSE))

\* LoadMem, the else branch: bounds check, then Load
LoadChecked(b, memtype, index, offset) ==
    Bind(BoundsCheckMem(b, memtype, index, offset), LAMBDA c :
    IF c.fatal # "" THEN c
    ELSE Bind(MemBuffer(c, offset), LAMBDA buf :
         NewNodeV(buf, "Load", <<buf.ret, index, c.effect, c.control>>,
                  MachineTypeFor(memtype), 0)))

\* LoadMem, asm.js semantics: CheckedLoad(MemBuffer(0), index, MemSize(0))
LoadAsmJs(b, memtype, index) ==
    Bind(MemBuffer(b, 0), LAMBDA buf :
    Bind(MemSize(buf, 0), LAMBDA size :
    NewNodeV(size, "CheckedLoad",
             <<buf.ret, index, size.ret, b.effect, b.control>>,
             MachineTypeFor(memtype), 0)))

\* a load that takes the trapping path whatever the module's semantics
LoadMemAlwaysChecked(b, type, memtype, index, offset) ==
    Bind(LoadChecked(b, memtype, index, offset), LAMBDA load :
    IF load.fatal # "" THEN load ELSE [load EXCEPT !.effect = load.ret])

\* a load whose extension becomes the effect cursor
LoadMemExtensionEffect(b, type, memtype, index, offset) ==
    Bind(IF module.present /\ module.asm_js
         THEN LoadAsmJs(b, memtype, index)
         ELSE LoadChecked(b, memtype, index, offset), LAMBDA load :
    IF load.fatal # "" THEN load
    ELSE IF type = "I64" /\ WasmOpcodesMemSize(memtype) < 8
         THEN Bind(NewNode(load, IF memtype \in {"I8", "I16", "I32"}
                                 THEN "ChangeInt32ToInt64"
                                 ELSE "ChangeUint32ToUint64", <<load.ret>>),
                   LAMBDA x : [x EXCEPT !.effect = x.ret])
         ELSE [load EXCEPT !.effect = load.ret])

LoadMem(b, type, memtype, index, offset) ==
    Bind(IF module.present /\ module.asm_js
         THEN LoadAsmJs(b, memtype, index)
         ELSE LoadChecked(b, memtype, index, offset), LAMBDA load :
    IF load.fatal # "" THEN load
    ELSE IF type = "I64" /\ WasmOpcodesMemSize(memtype) < 8
         THEN NewNode([load EXCEPT !.effect = load.ret],
                      IF memtype \in {"I8", "I16", "I32"}
                      THEN "ChangeInt32ToInt64" ELSE "ChangeUint32ToUint64",
                      <<load.ret>>)
         ELSE [load EXCEPT !.effect = load.ret])

\* StoreMem, the else branch: bounds check, then Store
StoreChecked(b, memtype, index, offset, val) ==
    Bind(BoundsCheckMem(b, memtype, index, offset), LAMBDA c :
    IF c.fatal # "" THEN c
    ELSE Bind(MemBuffer(c, offset), LAMBDA buf :
         NewNodeV(buf, "Store", <<buf.ret, index, val, c.effect, c.control>>,
                  MachineTypeFor(memtype), 0)))

\* StoreMem, asm.js semantics
StoreAsmJs(b, memtype, index, val) ==
    Bind(MemBuffer(b, 0), LAMBDA buf :
    Bind(MemSize(buf, 0), LAMBDA size :
    NewNodeV(size, "CheckedStore",
             <<buf.ret, index, size.ret, val, b.effect, b.control>>,
             MachineTypeFor(memtype), 0)))

StoreMem(b, memtype, index, offset, val) ==
    Bind(IF module.present /\ module.asm_js
         THEN StoreAsmJs(b, memtype, index, val)
         ELSE StoreChecked(b, memtype, index, offset, val), LAMBDA store :
    IF store.fatal # "" THEN store ELSE [store EXCEPT !.effect = store.ret])

-----------------------------------------------------------------------------
(* Initial states shared by the specifications                             *)

\* TFBuilder::TFBuilder, then Start(params) and one Param per parameter,
\* with both cursors on the start node
NewBuilder(params) ==
    [nodes |-> <<Node("Start", <<>>, params, 0)>> \o
               [i \in 1..params |-> Node("Parameter", <<1>>, i - 1, 0)],
     start |-> 1, end |-> 0, control |-> 1, effect |-> 1,
     traps |-> [r \in TrapReasonSet |-> 0],
     effects |-> [r \in TrapReasonSet |-> 0],
     mem_buffer |-> 0, mem_size |-> 0, function_table |-> 0,
     fatal |-> "", ret |-> 0]

\* Param(index): parameter nodes are created by NewBuilder in index order
Param(index) == index + 2

\* function_env->module = nullptr (CommonSignatures::init_env)
NoModule ==
    [present |-> FALSE, asm_js |-> FALSE, has_context |-> FALSE, size |-> 0]

NoCall ==
    [n |-> 0, call |-> "none", opcode |-> "", args |-> <<>>, ret |-> 0,
     control |-> 0, effect |-> 0, len |-> 0, trap_merges |-> {},
     sites |-> [r \in TrapReasonSet |-> 0]]

\* the record of call number n, made from the builder state before it;
\* sites counts the trap sites the calls asked for, per reason
CallRecord(call, opcode, args, b0, b1) ==
    [n |-> last.n + 1, call |-> call, opcode |-> opcode, args |-> args,
     ret |-> b1.ret, control |-> b0.control, effect |-> b0.effect,
     len |-> Len(b0.nodes),
     trap_merges |-> {b0.traps[r] : r \in TrapReasonSet} \ {0},
     sites |-> last.sites]

\* CommonSignatures::init_env for a signature with the given parameter count
InitEnv(params) ==
    [param_count |-> params, local_int32_count |-> 0, local_int64_count |-> 0,
     local_float32_count |-> 0, local_float64_count |-> 0,
     total_locals |-> params]

\* phis holds the value of every phi of the merges the call has entered
NoRun ==
    [state |-> "idle", pc |-> 0, a |-> 0, b |-> 0, trap |-> "", value |-> 0,
     phis |-> <<>>]

\* no function body is being decoded
NoDecode ==
    [state |-> "idle", bytes |-> <<>>, pc |-> 0, stack |-> <<>>,
     error |-> [code |-> "", pc |-> 0], errors |-> 0, calls |-> 0]

\* threads that query signatures
MaxThreads == 2

Threads == 1..MaxThreads

\* the opcodes queried: two simple ones (FOREACH_SIMPLE_OPCODE) and one that
\* is not simple
SimpleOpcodes == {"I32Add", "BoolNot"}

SigOpcodes == SimpleOpcodes \cup {"Nop"}

\* kSimpleExprSigs: nullptr, then the signatures in the order of kSigEnum
kSimpleExprSigs == <<"nullptr", "i_ii", "i_i">>

\* kSigEnum_<sig> of the signature of a simple opcode
SigEnum(opcode) == IF opcode = "I32Add" THEN 0 ELSE 1

\* static byte kSimpleExprSigTable[256], zero-initialized
NoSigTable == [opcode \in SigOpcodes |-> 0]

\* no thread is in a call.  warm, pre and alone describe the thread's last
\* call: it began after some call had returned; it began after the table was
\* pre-warmed; no other call overlapped it.
\* returned, prewarmed and late record that a call has returned, that one
\* returned while no other call was in progress, and that the table was
\* written after that.
NoThreads ==
    [call |-> [t \in Threads |->
                  [pc |-> "idle", opcode |-> "", todo |-> {}, result |-> "",
                   warm |-> FALSE, pre |-> FALSE, alone |-> FALSE]],
     returned |-> FALSE, prewarmed |-> FALSE,
     late |-> FALSE, late_prewarmed |-> FALSE]

InitB(b) ==
    /\ nodes = b.nodes
    /\ graph_start = b.start
    /\ graph_end = b.end
    /\ control = b.control
    /\ effect = b.effect
    /\ traps = b.traps
    /\ effects = b.effects
    /\ mem_buffer = b.mem_buffer
    /\ mem_size = b.mem_size
    /\ function_table = b.function_table
    /\ fatal = b.fatal

InitCommon(params) ==
    /\ InitB(NewBuilder(params))
    /\ last = NoCall
    /\ env = InitEnv(params)
    /\ locals = <<>>
    /\ run = NoRun
    /\ decode = NoDecode
    /\ kSimpleExprSigTable = NoSigTable
    /\ threads = NoThreads

-----------------------------------------------------------------------------
(* SpecDiv: integer division and remainder on every kind of operand        *)

\* Binop calls per build
MaxDivCalls == 2

IntDivRemOpcodes ==
    {"I32DivS", "I32DivU", "I32RemS", "I32RemU",
     "I64DivS", "I64DivU", "I64RemS", "I64RemU"}

\* the node of an operand: kind "k" is the constant 7
Operand(b, w, kind, index) ==
    CASE kind = "param" -> [b EXCEPT !.ret = Param(index)]
      [] kind = "zero" -> WordConstant(b, w, 0, 0)
      [] kind = "min" -> WordConstant(b, w, IF w = 32 THEN kMinInt ELSE 0, kMinInt)
      [] kind = "k" -> WordConstant(b, w, 7, 0)

InitDiv ==
    /\ InitCommon(2)
    /\ module = NoModule
    /\ target \in {[wasm_64 |-> x, machine |-> {}] : x \in BOOLEAN}

\* return(Binop(opcode, left, right)) of TestInt32Binop / TestInt64Binop:
\* the operands are decoded first, then Binop is called
DivBinop(opcode, lk, rk) ==
    /\ fatal = ""
    /\ last.n < MaxDivCalls
    /\ Bind(Operand(B, WordWidth(opcode), lk, 0), LAMBDA l :
       Bind(Operand(l, WordWidth(opcode), rk, 1), LAMBDA r :
       Bind(Binop(r, opcode, l.ret, r.ret), LAMBDA b1 :
           /\ SetB(b1)
           /\ last' = CallRecord("Binop", opcode, <<l.ret, r.ret>>, r, b1))))
    /\ UNCHANGED <<module, target, env, locals, run, decode,
                   kSimpleExprSigTable, threads>>

\* Binop looks at the dividend's value only for signed division
DividendKinds(opcode) ==
    IF opcode \in {"I32DivS", "I64DivS"} THEN {"param", "min", "k"}
    ELSE {"param"}

NextDiv ==
    \E opcode \in IntDivRemOpcodes, rk \in {"param", "zero", "k"} :
        \E lk \in DividendKinds(opcode) : DivBinop(opcode, lk, rk)

SpecDiv == InitDiv /\ [][NextDiv]_vars

-----------------------------------------------------------------------------
(* SpecMem: loads and stores on one builder, for each kind of module       *)

\* memory accesses per build
MaxMemCalls == 2

\* mem_end - mem_start, in bytes
MemSizes == {0, 8, 32}

\* static offsets of the accesses
Offsets == {0, 4, 28}

\* <<LocalType, MemType>> of the loads
LoadKinds ==
    {<<"I32", "I8">>, <<"I32", "I32">>, <<"I64", "U16">>, <<"I64", "I32">>,
     <<"I64", "I64">>, <<"F64", "F64">>}

StoreTypes == {"U8", "I32", "F64"}

\* function_env->module: null, or a module with a memory
Modules ==
    {NoModule} \cup
    {[present |-> TRUE, asm_js |-> a, has_context |-> c, size |-> size] :
        a \in BOOLEAN, c \in BOOLEAN, size \in MemSizes}

InitMem ==
    /\ InitCommon(2)
    /\ module \in Modules
    /\ target = [wasm_64 |-> TRUE, machine |-> {}]

\* LoadMem(type, memtype, get_local 0, offset); asm.js accesses carry no
\* static offset (DCHECK_EQ(0, offset))
DoLoadMem(type, memtype, offset) ==
    /\ fatal = ""
    /\ last.n < MaxMemCalls
    /\ module.asm_js => offset = 0
    /\ Bind(LoadMem(B, type, memtype, Param(0), offset), LAMBDA b1 :
           /\ SetB(b1)
           /\ last' = CallRecord("LoadMem", memtype, <<Param(0), offset>>, B, b1))
    /\ UNCHANGED <<module, target, env, locals, run, decode,
                   kSimpleExprSigTable, threads>>

\* StoreMem(memtype, get_local 0, offset, get_local 1)
DoStoreMem(memtype, offset) ==
    /\ fatal = ""
    /\ last.n < MaxMemCalls
    /\ module.asm_js => offset = 0
    /\ Bind(StoreMem(B, memtype, Param(0), offset, Param(1)), LAMBDA b1 :
           /\ SetB(b1)
           /\ last' = CallRecord("StoreMem", memtype, <<Param(0), offset>>, B, b1))
    /\ UNCHANGED <<module, target, env, locals, run, decode,
                   kSimpleExprSigTable, threads>>

NextMem ==
    \/ \E k \in LoadKinds, offset \in Offsets : DoLoadMem(k[1], k[2], offset)
    \/ \E memtype \in StoreTypes, offset \in Offsets : DoStoreMem(memtype, offset)

SpecMem == InitMem /\ [][NextMem]_vars

-----------------------------------------------------------------------------
(* SpecOps: one simple expression per build, on each target                *)

\* Unop / Binop calls per build
MaxOpCalls == 1

\* the one-parameter operators named by Unop and IsSupported
UnaryOpcodes ==
    (DOMAIN UnopOps32) \cup (DOMAIN UnopOps64) \cup
    {"BoolNot", "F32Neg", "F64Neg", "I32Ctz", "I32Popcnt", "I64Ctz",
     "I64Popcnt", "F32Floor", "F32Ceil", "F32Trunc", "F32NearestInt",
     "F64Floor", "F64Ceil", "F64Trunc", "F64NearestInt", "I64SConvertF32",
     "I64SConvertF64", "I64UConvertF32", "I64UConvertF64"}

\* the two-parameter operators named by Binop and IsSupported
BinaryOpcodes ==
    (DOMAIN BinopOps32) \cup (DOMAIN BinopOps64) \cup IntDivRemOpcodes \cup
    {"I32Ne", "I64Ne", "F32Ne", "F64Ne", "F32CopySign", "F64CopySign",
     "F32Min", "F64Min", "F32Max", "F64Max", "I64Ror", "I64Rol"}

\* the machine with none, or with all, of its optional operators
Machines == {{}, {OptionalOps[o] : o \in DOMAIN OptionalOps}}

InitOps ==
    /\ InitCommon(2)
    /\ module = NoModule
    /\ target \in {[wasm_64 |-> x, machine |-> m] :
                      x \in BOOLEAN, m \in Machines}

\* TestBuildGraphForUnop: Unop(opcode, get_local 0)
DoUnop(opcode) ==
    /\ fatal = ""
    /\ last.n < MaxOpCalls
    /\ Bind(Unop(B, opcode, Param(0)), LAMBDA b1 :
           /\ SetB(b1)
           /\ last' = CallRecord("Unop", opcode, <<Param(0)>>, B, b1))
    /\ UNCHANGED <<module, target, env, locals, run, decode,
                   kSimpleExprSigTable, threads>>

\* TestBuildGraphForBinop: Binop(opcode, get_local 0, get_local 1)
DoBinop(opcode) ==
    /\ fatal = ""
    /\ last.n < MaxOpCalls
    /\ Bind(Binop(B, opcode, Param(0), Param(1)), LAMBDA b1 :
           /\ SetB(b1)
           /\ last' = CallRecord("Binop", opcode, <<Param(0), Param(1)>>, B, b1))
    /\ UNCHANGED <<module, target, env, locals, run, decode,
                   kSimpleExprSigTable, threads>>

NextOps ==
    \/ \E opcode \in UnaryOpcodes : DoUnop(opcode)
    \/ \E opcode \in BinaryOpcodes : DoBinop(opcode)

SpecOps == InitOps /\ [][NextOps]_vars

-----------------------------------------------------------------------------
(* SpecLocals: WasmRunner::AllocateLocal on the environments of            *)
(* CommonSignatures                                                        *)

\* AllocateLocal calls per function
MaxLocals == 4

\* enum LocalType, without kAstStmt
LocalTypes == {"I32", "I64", "F32", "F64"}

\* WasmRunner::AllocateLocal: result, before the cast to byte
AllocateLocalResult(e, type) ==
    e.param_count +
        (IF type = "I32" THEN e.local_int32_count ELSE 0) +
        (IF type = "F32" THEN e.local_float32_count ELSE 0) +
        (IF type = "F64" THEN e.local_float64_count ELSE 0)

\* WasmRunner::AllocateLocal: the function environment after the call
AllocateLocalEnv(e, type) ==
    [e EXCEPT
        !.local_int32_count = IF type = "I32" THEN @ + 1 ELSE @,
        !.local_float32_count = IF type = "F32" THEN @ + 1 ELSE @,
        !.local_float64_count = IF type = "F64" THEN @ + 1 ELSE @,
        !.total_locals = @ + 1]

\* env_i_v, env_i_i, env_i_ii of WasmRunner's constructor
InitLocals ==
    /\ \E params \in 0..2 : InitCommon(params)
    /\ module = NoModule
    /\ target = [wasm_64 |-> FALSE, machine |-> {}]

AllocateLocal(type) ==
    /\ Len(locals) < MaxLocals
    /\ locals' = Append(locals, [type |-> type,
                                 index |-> AllocateLocalResult(env, type)])
    /\ env' = AllocateLocalEnv(env, type)
    /\ UNCHANGED <<nodes, graph_start, graph_end, control, effect, traps,
                   effects, mem_buffer, mem_size, function_table, fatal,
                   module, target, last, run, decode,
                   kSimpleExprSigTable, threads>>

NextLocals == \E type \in LocalTypes : AllocateLocal(type)

SpecLocals == InitLocals /\ [][NextLocals]_vars

-----------------------------------------------------------------------------
(* Reading the graph                                                       *)

Range(seq) == {seq[i] : i \in 1..Len(seq)}

\* the nodes the last call created
NewNodes == (last.len + 1)..Len(nodes)

\* the control inputs of a node: all inputs of a merge, the branch of a
\* projection, and the last input of every other node that takes control
ControlInputs(n) ==
    LET nd == nodes[n]
    IN CASE nd.op \in {"Start"} -> {}
         [] nd.op \in {"Merge", "Loop", "End"} -> Range(nd.in)
         [] nd.in = <<>> -> {}
         [] OTHER -> {nd.in[Len(nd.in)]}

\* every control path from Start to n passes through a node of S
RECURSIVE DominatedBy(_, _)
DominatedBy(S, n) ==
    \/ n \in S
    \/ /\ ControlInputs(n) # {}
       /\ \A p \in ControlInputs(n) : DominatedBy(S, p)

\* the projection of branch br with the given operator, 0 if there is none
Projection(br, op) ==
    LET ps == {p \in 1..Len(nodes) : nodes[p].op = op /\ nodes[p].in = <<br>>}
    IN IF ps = {} THEN 0 ELSE CHOOSE p \in ps : TRUE

\* n is the node  x == constant(lo, hi)  of either word size
IsEqualConst(n, x, lo, hi) ==
    /\ nodes[n].op \in {"Word32Equal", "Word64Equal"}
    /\ nodes[n].in[1] = x
    /\ nodes[nodes[n].in[2]].op \in {"Int32Constant", "Int64Constant"}
    /\ nodes[nodes[n].in[2]].val = lo
    /\ nodes[nodes[n].in[2]].hi = hi

\* the inputs of the materialized trap merges
TrapInputs == UNION {Range(nodes[traps[r]].in) : r \in {x \in TrapReasonSet : traps[x] # 0}}

\* the projections <<trap side, other side>> of a branch that tests x == 0,
\* or <<0, 0>> if br is no such branch
ZeroTest(br, x) ==
    IF nodes[br].op # "Branch" THEN <<0, 0>>
    ELSE IF nodes[br].in[1] = x
         THEN <<Projection(br, "IfFalse"), Projection(br, "IfTrue")>>
         ELSE IF IsEqualConst(nodes[br].in[1], x, 0, 0)
              THEN <<Projection(br, "IfTrue"), Projection(br, "IfFalse")>>
              ELSE <<0, 0>>

\* the divide or modulo machine node the last Binop emitted: the result, or
\* for signed remainder the second value input of the result phi
ArithNode ==
    IF nodes[last.ret].op = "Phi" THEN nodes[last.ret].in[2] ELSE last.ret

ArithControl == nodes[ArithNode].in[3]

LastIsDivRem ==
    /\ last.call = "Binop"
    /\ last.opcode \in IntDivRemOpcodes
    /\ fatal = ""

\* the graph holds a branch on divisor == 0 whose trap side enters a trap
\* block and whose other side dominates the control input of the arithmetic
ZeroCheckDominates ==
    \E br \in 1..Len(nodes) :
        LET z == ZeroTest(br, last.args[2])
        IN /\ z[1] # 0
           /\ z[1] \in TrapInputs
           /\ DominatedBy({z[2]}, ArithControl)

\* the divide is reached only past  divisor != -1  or past the non-trap side
\* of a branch on  dividend == INT_MIN  taken where divisor == -1
MinCheckDominates ==
    LET w == WordWidth(last.opcode)
        lo == IF w = 32 THEN kMinInt ELSE 0
        hi == IF w = 32 THEN 0 ELSE kMinInt
    IN \E b1, b2 \in 1..Len(nodes) :
        /\ nodes[b1].op = "Branch" /\ nodes[b2].op = "Branch"
        /\ IsEqualConst(nodes[b1].in[1], last.args[2], -1, IF w = 32 THEN 0 ELSE -1)
        /\ IsEqualConst(nodes[b2].in[1], last.args[1], lo, hi)
        /\ nodes[b2].in[2] = Projection(b1, "IfTrue")
        /\ Projection(b2, "IfTrue") \in TrapInputs
        /\ DominatedBy({Projection(b1, "IfFalse"), Projection(b2, "IfFalse")},
                       ArithControl)

\* C1: after Binop with an integer division or remainder opcode, for every
\* kind of divisor node, a trap-on-zero branch dominates the divide/modulo
\* node, and for signed division so does the INT_MIN / -1 check.
C1_DivRemGuarded ==
    LastIsDivRem =>
        /\ ZeroCheckDominates
        /\ last.opcode \in {"I32DivS", "I64DivS"} => MinCheckDominates

-----------------------------------------------------------------------------
(* Running the graph of  return (get_local 0) / (get_local 1)              *)

\* the call arguments range over -MaxSmall..MaxSmall and the corner values
MaxSmall == 2

ArgSamples ==
    (-MaxSmall..MaxSmall) \cup {kMinInt, -4777344, 72384, 2147483647}

\* the machine's signed division: the quotient rounded towards zero, for a
\* divisor other than 0 and operands other than INT_MIN / -1
TruncDiv(x, y) ==
    IF y = kMinInt THEN (IF x = kMinInt THEN 1 ELSE 0)
    ELSE IF y = 1 THEN x
    ELSE IF y = -1 THEN -x
    ELSE LET py == IF y < 0 THEN -y ELSE y
             m == -(x + 1)
             mag == IF x >= 0 THEN x \div py
                    ELSE (m \div py) + (IF m % py = py - 1 THEN 1 ELSE 0)
         IN IF (x < 0) = (y < 0) THEN mag ELSE -mag

\* x - y on 32-bit words, for 0 <= y
Sub32(x, y) ==
    IF x < kMinInt + y
    THEN ((x + 2147483647) - y + 1) + 2147483647 + 1
    ELSE x - y

\* the value of a node for the arguments of the current call
RECURSIVE Eval(_)
Eval(n) ==
    LET nd == nodes[n]
    IN CASE nd.op = "Parameter" -> IF nd.val = 0 THEN run.a ELSE run.b
         [] nd.op = "Int32Constant" -> nd.val
         [] nd.op = "Word32Equal" ->
                IF Eval(nd.in[1]) = Eval(nd.in[2]) THEN 1 ELSE 0
         [] nd.op = "Int32Div" -> TruncDiv(Eval(nd.in[1]), Eval(nd.in[2]))
         [] nd.op = "Int32Sub" -> Sub32(Eval(nd.in[1]), Eval(nd.in[2]))
         [] nd.op = "Phi" -> run.phis[n]

\* the machine division instruction raises a hardware fault on these operands
Faults(n) ==
    /\ nodes[n].op = "Int32Div"
    /\ \/ Eval(nodes[n].in[2]) = 0
       \/ Eval(nodes[n].in[1]) = kMinInt /\ Eval(nodes[n].in[2]) = -1

ControlOps ==
    {"Branch", "IfTrue", "IfFalse", "Switch", "IfValue", "IfDefault", "Merge",
     "Loop", "Return"}

\* the projections of switch sw that take the key value v
SwitchValues(sw, v) ==
    {p \in 1..Len(nodes) :
        nodes[p].op = "IfValue" /\ nodes[p].in = <<sw>> /\ nodes[p].val = v}

\* where control can go from node n
ControlSuccessors(n) ==
    CASE nodes[n].op = "Branch" ->
            {Projection(n, IF Eval(nodes[n].in[1]) # 0
                           THEN "IfTrue" ELSE "IfFalse")}
      [] nodes[n].op = "Switch" ->
            IF SwitchValues(n, Eval(nodes[n].in[1])) # {}
            THEN SwitchValues(n, Eval(nodes[n].in[1]))
            ELSE {Projection(n, "IfDefault")} \ {0}
      [] OTHER ->
            {s \in 1..Len(nodes) :
                nodes[s].op \in ControlOps /\ n \in ControlInputs(s)}

\* the phis of a merge or loop node
MergePhis(m) ==
    {p \in 1..Len(nodes) :
        nodes[p].op = "Phi" /\ nodes[p].in[Len(nodes[p].in)] = m}

\* the phi values once control has moved from node n to node s: the phis of
\* a merge take, all at once, the value of the input of the edge taken
PhisAfter(n, s) ==
    IF nodes[s].op \in {"Merge", "Loop"}
    THEN LET edge == CHOOSE i \in 1..Len(nodes[s].in) : nodes[s].in[i] = n
         IN [p \in (DOMAIN run.phis) \cup MergePhis(s) |->
                IF p \in MergePhis(s) THEN Eval(nodes[p].in[edge])
                ELSE run.phis[p]]
    ELSE run.phis

\* the trap block a merge node heads, "" if none
TrapOf(n) ==
    IF \E r \in TrapReasonSet : traps[r] = n
    THEN CHOOSE r \in TrapReasonSet : traps[r] = n
    ELSE ""

InitRun ==
    /\ InitCommon(2)
    /\ module = NoModule
    /\ target \in {[wasm_64 |-> x, machine |-> {}] : x \in BOOLEAN}

\* BUILD(r, WASM_RETURN(WASM_BINOP(opcode, WASM_GET_LOCAL(0), WASM_GET_LOCAL(1))))
BuildReturnDiv ==
    /\ run.state = "idle"
    /\ Bind(Binop(B, "I32DivS", Param(0), Param(1)), LAMBDA b1 :
       Bind(Return(b1, <<b1.ret>>), LAMBDA b2 :
           /\ SetB(b2)
           /\ last' = CallRecord("Return", "I32DivS", <<b1.ret>>, B, b2)))
    /\ run' = [run EXCEPT !.state = "ready"]
    /\ UNCHANGED <<module, target, env, locals, decode, kSimpleExprSigTable, threads>>

\* r.Call(a, b)
CallGraph(a, b) ==
    /\ run.state \in {"ready", "done", "fault"}
    /\ run' = [state |-> "running", pc |-> graph_start, a |-> a, b |-> b,
               trap |-> "", value |-> 0, phis |-> <<>>]
    /\ UNCHANGED <<nodes, graph_start, graph_end, control, effect, traps,
                   effects, mem_buffer, mem_size, function_table, fatal,
                   module, target, last, env, locals, decode,
                   kSimpleExprSigTable, threads>>

\* control moves to the next node; a Return ends the call with its value
StepGraph ==
    /\ run.state = "running"
    /\ IF nodes[run.pc].op = "Return"
       THEN run' = IF Faults(nodes[run.pc].in[1])
                   THEN [run EXCEPT !.state = "fault"]
                   ELSE [run EXCEPT !.state = "done",
                                    !.value = Eval(nodes[run.pc].in[1])]
       ELSE \E s \in ControlSuccessors(run.pc) :
                run' = [run EXCEPT !.pc = s,
                                   !.trap = IF TrapOf(s) # "" THEN TrapOf(s) ELSE @,
                                   !.phis = PhisAfter(run.pc, s)]
    /\ UNCHANGED <<nodes, graph_start, graph_end, control, effect, traps,
                   effects, mem_buffer, mem_size, function_table, fatal,
                   module, target, last, env, locals, decode,
                   kSimpleExprSigTable, threads>>

NextRun ==
    \/ BuildReturnDiv
    \/ \E a, b \in ArgSamples : CallGraph(a, b)
    \/ StepGraph

SpecRun == InitRun /\ [][NextRun]_vars

\* q is the quotient of a by b rounded towards zero
IsTruncQuotient(a, b, q) ==
    LET r == a - q * b
    IN /\ a >= 0 => r >= 0
       /\ a <= 0 => r <= 0
       /\ IF b > 0 THEN -b < r /\ r < b ELSE b < r /\ b < -r

\* C2: a call of the graph of return(get_local 0 / get_local 1), signed
\* 32-bit, ends in the DivByZero trap block when b = 0, in the
\* DivUnrepresentable trap block when a = INT_MIN and b = -1, and otherwise
\* reaches no trap block and returns the truncating quotient; (-4777344, 72384)
\* returns -66.  The call never faults and never stops before a Return.
C2_DivRun ==
    /\ run.state # "fault"
    /\ run.state = "running" /\ nodes[run.pc].op # "Return"
           => ControlSuccessors(run.pc) # {}
    /\ run.state = "done" =>
        IF run.b = 0 THEN run.trap = "DivByZero"
        ELSE IF run.a = kMinInt /\ run.b = -1
             THEN run.trap = "DivUnrepresentable"
             ELSE /\ run.trap = ""
                  /\ IsTruncQuotient(run.a, run.b, run.value)
                  /\ run.a = -4777344 /\ run.b = 72384 => run.value = -66

C2_Witness ==
    /\ run.state = "done"
    /\ run.a = kMinInt /\ run.b = -1
    /\ run.trap = "DivUnrepresentable"

-----------------------------------------------------------------------------
(* Memory accesses                                                         *)

LastIsMem ==
    /\ last.call \in {"LoadMem", "StoreMem"}
    /\ fatal = ""

\* the load or store node the last call created
AccessNode ==
    CHOOSE n \in NewNodes :
        nodes[n].op \in {"Load", "Store", "CheckedLoad", "CheckedStore"}

\* the branch the last call created
CheckBranch == CHOOSE n \in NewNodes : nodes[n].op = "Branch"

\* C3: without the asm.js flag, every LoadMem and StoreMem emits a branch
\* that traps with MemOutOfBounds before it creates the load or store, and
\* the load or store is controlled by the non-trap projection of that branch.
C3_BoundsCheckDominates ==
    (LastIsMem /\ module.present /\ ~module.asm_js) =>
        /\ \E n \in NewNodes : nodes[n].op = "Branch"
        /\ nodes[CheckBranch].in[2] = last.control
        /\ CheckBranch < AccessNode
        /\ traps["MemOutOfBounds"] # 0
        /\ Projection(CheckBranch, "IfFalse")
               \in Range(nodes[traps["MemOutOfBounds"]].in)
        /\ nodes[AccessNode].op = (IF last.call = "LoadMem" THEN "Load" ELSE "Store")
        /\ ControlInputs(AccessNode) = {Projection(CheckBranch, "IfTrue")}
        /\ DominatedBy({Projection(CheckBranch, "IfTrue")}, AccessNode)
        /\ control = Projection(CheckBranch, "IfTrue")

C3_Witness ==
    /\ LastIsMem /\ module.present /\ ~module.asm_js
    /\ last.call = "StoreMem" /\ last.n = 2
    /\ Len(nodes[traps["MemOutOfBounds"]].in) = 2

\* index values of an access, as 32-bit words (-4 is 0xFFFFFFFC)
IndexSamples == {0, 1, 4, 24, 28, 29, 32, 2147483647, -4, kMinInt}

\* the check node admits the index (the access does not trap)
Admits(cond, index) ==
    IF nodes[cond].op = "Int32Constant" THEN nodes[cond].val # 0
    ELSE /\ nodes[cond].op = "Uint32LessThanOrEqual"
         /\ Uint32LessThanOrEqual(index, nodes[nodes[cond].in[2]].val)

\* C4: BoundsCheckMem reduces the check to the constant false exactly when
\* o >= size or o + w > size; otherwise, o + w = size included, the check is
\* index <=u size - o - w, so an access traps iff index + o + w > size.
C4_BoundsCheckExact ==
    (LastIsMem /\ module.present /\ ~module.asm_js) =>
        LET o == last.args[2]
            w == WasmOpcodesMemSize(last.opcode)
            cond == nodes[CheckBranch].in[1]
        IN /\ (nodes[cond].op = "Int32Constant" /\ nodes[cond].val = 0)
                  <=> (o >= module.size \/ o + w > module.size)
           /\ ~(o >= module.size \/ o + w > module.size) =>
                  /\ nodes[cond].op = "Uint32LessThanOrEqual"
                  /\ nodes[cond].in[1] = last.args[1]
                  /\ nodes[nodes[cond].in[2]].op = "Int32Constant"
                  /\ nodes[nodes[cond].in[2]].val = module.size - o - w
           /\ \A i \in IndexSamples :
                  Admits(cond, i) <=> (i >= 0 /\ i <= module.size - o - w)

\* C5: with the asm.js flag, LoadMem and StoreMem emit a checked load or
\* store on the effect chain, no branch and no trap: no trap block is ever
\* materialized or widened and the control cursor stays where it was.
C5_AsmJsNoTrap ==
    (module.present /\ module.asm_js) =>
        /\ \A r \in TrapReasonSet : traps[r] = 0 /\ effects[r] = 0
        /\ control = graph_start
        /\ LastIsMem =>
            /\ nodes[AccessNode].op =
                   (IF last.call = "LoadMem" THEN "CheckedLoad" ELSE "CheckedStore")
            /\ \A n \in NewNodes :
                   nodes[n].op \notin {"Branch", "IfTrue", "IfFalse", "Merge",
                                       "EffectPhi", "Return", "Call"}
            /\ control = last.control
            /\ effect = AccessNode
            /\ ControlInputs(AccessNode) = {last.control}
            /\ nodes[AccessNode].in[Len(nodes[AccessNode].in) - 1] = last.effect
            /\ nodes[nodes[AccessNode].in[1]].op = "IntPtrConstant"
            /\ nodes[AccessNode].in[2] = last.args[1]
            /\ nodes[nodes[AccessNode].in[3]].val = module.size

C5_Witness ==
    /\ module.present /\ module.asm_js
    /\ LastIsMem /\ last.call = "StoreMem" /\ last.n = 2
    /\ nodes[AccessNode].op = "CheckedStore"

-----------------------------------------------------------------------------
(* Operator selection                                                      *)

LastIsOp == last.call \in {"Unop", "Binop"}

\* the last call built exactly one node, a machine operator on its arguments
EmitsSinglePrimitive ==
    /\ fatal = ""
    /\ NewNodes = {last.ret}
    /\ Range(nodes[last.ret].in) = Range(last.args)

\* C6: for an opcode IsSupported reports unsupported on the target, Binop and
\* Unop never emit a single primitive machine operator: the call yields a
\* lowered sequence or ends in a fatal error.
C6_UnsupportedNeverPrimitive ==
    (LastIsOp /\ ~IsSupported(last.opcode)) => ~EmitsSinglePrimitive

\* C7: for every simple expression opcode IsSupported reports supported, Unop
\* or Binop returns a node and does not reach the fatal UnsupportedOpcode path.
C7_SupportedBuilds ==
    (LastIsOp /\ IsSupported(last.opcode)) =>
        /\ fatal = ""
        /\ last.ret \in 1..Len(nodes)

-----------------------------------------------------------------------------
(* Declared locals                                                         *)

\* the type of the local at an index under the layout of the function
\* environment: parameters, then the i32, the f32 and the f64 locals
LocalTypeAt(e, index) ==
    CASE index < e.param_count -> "param"
      [] index < e.param_count + e.local_int32_count -> "I32"
      [] index < e.param_count + e.local_int32_count +
                 e.local_float32_count -> "F32"
      [] index < e.param_count + e.local_int32_count +
                 e.local_float32_count + e.local_float64_count -> "F64"
      [] OTHER -> "none"

\* C8: locals A (i32), B (f32), C (i32) allocated in this order get indices
\* with A < C and B above the index of every i32 local.
C8_OrderPreserving ==
    \A i, j, k \in DOMAIN locals :
        (/\ i < j
         /\ j < k
         /\ locals[i].type = "I32"
         /\ locals[j].type = "F32"
         /\ locals[k].type = "I32") =>
            /\ locals[i].index < locals[k].index
            /\ \A l \in DOMAIN locals :
                  locals[l].type = "I32" => locals[l].index < locals[j].index

\* C9: after every later allocation the index returned for a local still
\* denotes that local and no other, with the type it was allocated with,
\* under the layout parameters, i32 locals, f32 locals, f64 locals.
C9_NoRenumbering ==
    /\ \A i \in DOMAIN locals :
          LocalTypeAt(env, locals[i].index) = locals[i].type
    /\ \A i, j \in DOMAIN locals :
          i # j => locals[i].index # locals[j].index

-----------------------------------------------------------------------------
(* SpecSwitch: the graph of                                                *)
(*   switch N (get_local 0) { case i: nop | return 44 + i }                *)
(*   return get_local 0                                                    *)
(* as decoded into builder calls, run on keys inside and outside 0..N-1    *)

\* cases of the switch
MaxCases == 4

\* the case bodies: each case is a nop or a return of 44 + its index
RECURSIVE CaseListsOf(_)
CaseListsOf(n) ==
    IF n = 0 THEN {<<>>}
    ELSE {Append(k, c) : k \in CaseListsOf(n - 1), c \in {"nop", "return"}}

CaseLists == UNION {CaseListsOf(n) : n \in 0..MaxCases}

Keys == (-1..(MaxCases + 1)) \cup {kMinInt, 2147483647}

\* the control cursor moves to the node just made
SetControl(b) == [b EXCEPT !.control = b.ret]

\* the decoder on the cases i.. of a statement-form switch: the control of a
\* case is its IfValue merged with the control that falls out of the case
\* before it (fall, 0 if that case returned); the control after the switch is
\* the IfDefault merged with the control falling out of the last case
RECURSIVE DecodeCases(_, _, _, _, _)
DecodeCases(b, sw, kinds, i, fall) ==
    IF i > Len(kinds)
    THEN Bind(IfDefault(b, sw), LAMBDA d :
         IF fall = 0 THEN SetControl(d)
         ELSE SetControl(Merge(d, <<fall, d.ret>>)))
    ELSE Bind(IfValue(b, i - 1, sw), LAMBDA v :
         Bind(IF fall = 0 THEN SetControl(v)
              ELSE SetControl(Merge(v, <<fall, v.ret>>)), LAMBDA c :
         IF kinds[i] = "return"
         THEN Bind(Int32Constant(c, 43 + i), LAMBDA k :
              Bind(Return(k, <<k.ret>>), LAMBDA r :
              DecodeCases(r, sw, kinds, i + 1, 0)))
         ELSE DecodeCases(c, sw, kinds, i + 1, c.control)))

\* the decoder on  switch N (get_local 0) { cases }
DecodeSwitch(b, kinds) ==
    Bind(Switch(b, Len(kinds) + 1, Param(0)), LAMBDA sw :
    DecodeCases(sw, sw.ret, kinds, 1, 0))

InitSwitch ==
    /\ InitCommon(1)
    /\ module = NoModule
    /\ target = [wasm_64 |-> FALSE, machine |-> {}]

\* BUILD(r, WASM_BLOCK(2, WASM_SWITCH(N, WASM_GET_LOCAL(0), cases...),
\*                        WASM_RETURN(WASM_GET_LOCAL(0))))
BuildSwitch(kinds) ==
    /\ run.state = "idle"
    /\ Bind(DecodeSwitch(B, kinds), LAMBDA b1 :
       Bind(Return(b1, <<Param(0)>>), LAMBDA b2 :
           /\ SetB(b2)
           /\ last' = CallRecord("Switch", "", kinds, B, b2)))
    /\ run' = [run EXCEPT !.state = "ready"]
    /\ UNCHANGED <<module, target, env, locals, decode, kSimpleExprSigTable, threads>>

NextSwitch ==
    \/ \E kinds \in CaseLists : BuildSwitch(kinds)
    \/ \E key \in Keys : CallGraph(key, 0)
    \/ StepGraph

SpecSwitch == InitSwitch /\ [][NextSwitch]_vars

\* the cases at or after key that return
ReturningFrom(kinds, key) ==
    {j \in 1..Len(kinds) : j >= key + 1 /\ kinds[j] = "return"}

\* the result of the switch program: the first return at or after the case
\* of the key, or the key when there is none or the key selects no case
SwitchResult(kinds, key) ==
    IF key >= 0 /\ key < Len(kinds) /\ ReturningFrom(kinds, key) # {}
    THEN 43 + (CHOOSE j \in ReturningFrom(kinds, key) :
                  \A k \in ReturningFrom(kinds, key) : j <= k)
    ELSE key

\* the program of Run_Wasm_Switch4_fallthru
Switch4 == last.call = "Switch" /\ last.args = <<"nop", "return", "nop", "return">>

\* C11: a statement-form switch falls through between its cases and, when no
\* case from the key's on returns, to the code after it: a call returns the
\* value of the first return at or after the key's case and otherwise the
\* key; with cases nop, return 45, nop, return 47 keys 0 and 1 return 45,
\* keys 2 and 3 return 47, and every key outside 0..3 returns the key.
C11_SwitchFallthru ==
    /\ run.state # "fault"
    /\ run.state = "running" /\ nodes[run.pc].op # "Return"
           => ControlSuccessors(run.pc) # {}
    /\ run.state = "done" =>
          /\ run.value = SwitchResult(last.args, run.a)
          /\ Switch4 => run.value = CASE run.a \in {0, 1} -> 45
                                      [] run.a \in {2, 3} -> 47
                                      [] OTHER -> run.a

C11_Witness ==
    /\ Switch4
    /\ run.state = "done"
    /\ run.a = 2
    /\ run.value = 47

-----------------------------------------------------------------------------
(* SpecLoop: the graphs of Run_Wasm_CountDown and Run_Wasm_WhileCountDown, *)
(* as decoded into builder calls, run on non-negative arguments            *)

\* the largest argument of the range of small arguments
MaxCount == 10

CountArgs == (0..MaxCount) \cup {100}

LoopForms == {"loop", "while"}

\* the decoder at a loop header with local 0 live: the Loop node on the entry
\* control and the phi of local 0 with its entry value
DecodeLoopHeader(b) ==
    Bind(SetControl(Loop(b, b.control)), LAMBDA loop :
    Bind(Phi(loop, <<Param(0)>>, loop.ret), LAMBDA phi :
    [b |-> phi, loop |-> loop.ret, phi |-> phi.ret]))

\* the decoder on the exit test: "loop" is  if (!get_local 0) break, "while"
\* is the test of  while (get_local 0); stay and exit are the projections on
\* which the body runs and on which the loop is left
DecodeLoopTest(h, form) ==
    IF form = "loop"
    THEN Bind(Unop(h.b, "BoolNot", h.phi), LAMBDA cond :
         Bind(Branch(cond, cond.ret), LAMBDA br :
         [b |-> br.b, stay |-> br.false_node, exit |-> br.true_node]))
    ELSE Bind(Branch(h.b, h.phi), LAMBDA br :
         [b |-> br.b, stay |-> br.true_node, exit |-> br.false_node])

\* the decoder on the loop: header, exit test, the body
\* set_local 0 (get_local 0 - 1), the back-edge into the header, and the
\* code after the loop  return get_local 0
DecodeCountDown(b, form) ==
    Bind(DecodeLoopHeader(b), LAMBDA h :
    Bind(DecodeLoopTest(h, form), LAMBDA t :
    Bind(Int32Constant([t.b EXCEPT !.control = t.stay], 1), LAMBDA one :
    Bind(Binop(one, "I32Sub", h.phi, one.ret), LAMBDA sub :
    Bind(AppendToMerge(sub, h.loop, sub.control), LAMBDA back :
    Bind(AppendToPhi(back, h.loop, h.phi, sub.ret), LAMBDA closed :
    Return([closed EXCEPT !.control = t.exit], <<h.phi>>)))))))

InitLoop ==
    /\ InitCommon(1)
    /\ module = NoModule
    /\ target = [wasm_64 |-> FALSE, machine |-> {}]

\* BUILD(r, WASM_BLOCK(2, WASM_LOOP(...) or WASM_WHILE(...),
\*                        WASM_RETURN(WASM_GET_LOCAL(0))))
BuildCountDown(form) ==
    /\ run.state = "idle"
    /\ Bind(DecodeCountDown(B, form), LAMBDA b1 :
           /\ SetB(b1)
           /\ last' = CallRecord("CountDown", form, <<Param(0)>>, B, b1))
    /\ run' = [run EXCEPT !.state = "ready"]
    /\ UNCHANGED <<module, target, env, locals, decode, kSimpleExprSigTable, threads>>

NextLoop ==
    \/ \E form \in LoopForms : BuildCountDown(form)
    \/ \E a \in CountArgs : CallGraph(a, 0)
    \/ StepGraph

SpecLoop == InitLoop /\ [][NextLoop]_vars

\* a call that has started keeps taking steps
SpecLoopFair == SpecLoop /\ WF_vars(StepGraph)

\* the loop headers of the graph
LoopHeaders == {n \in 1..Len(nodes) : nodes[n].op = "Loop"}

\* the one loop header merges the entry edge and the back-edge, and so does
\* the phi of local 0
HeaderMergesBackEdge ==
    /\ Cardinality(LoopHeaders) = 1
    /\ \A h \in LoopHeaders :
          /\ Len(nodes[h].in) = 2
          /\ nodes[h].val = 2
          /\ nodes[h].in[1] = graph_start
          /\ \A p \in MergePhis(h) :
                /\ Len(nodes[p].in) = 3
                /\ nodes[p].val = 2

\* C12: the countdown loop, in both forms, terminates for every non-negative
\* argument and returns 0: a call that has started eventually reaches the
\* Return with local 0 equal to 0, and the loop header merges the entry edge
\* and the back-edge.
C12_CountDownTerminates ==
    /\ [](last.call = "CountDown" => HeaderMergesBackEdge)
    /\ (run.state = "running") ~> (run.state = "done" /\ run.value = 0)

C12_Witness ==
    /\ last.call = "CountDown"
    /\ HeaderMergesBackEdge
    /\ run.state = "done"
    /\ run.a = 10
    /\ run.value = 0

-----------------------------------------------------------------------------
(* SpecDecode: the decode of a function body from a byte window, one       *)
(* production per step, driving the builder                                *)

\* bytes of the window
MaxBytes == 4

\* the opcode table for the byte op + 1: kind, immediate bytes, children and
\* their kind; a block takes its child count from its arity byte
DecodeOpcodes ==
    <<[name |-> "Nop", kind |-> "stmt", imm |-> 0, children |-> 0, child |-> ""],
      [name |-> "Block", kind |-> "stmt", imm |-> 1, children |-> 0, child |-> "stmt"],
      [name |-> "Return", kind |-> "stmt", imm |-> 0, children |-> 1, child |-> "expr"],
      [name |-> "Int8", kind |-> "expr", imm |-> 1, children |-> 0, child |-> ""]>>

\* the byte values of a window: the opcodes of the table and one byte that is
\* no opcode
Bytes == 0..Len(DecodeOpcodes)

\* all byte windows of up to n bytes
RECURSIVE WindowsOf(_)
WindowsOf(n) ==
    IF n = 0 THEN {<<>>}
    ELSE {Append(w, x) : w \in WindowsOf(n - 1), x \in Bytes}

Windows == UNION {WindowsOf(n) : n \in 0..MaxBytes}

\* the decoder and the builder it drives
Decoder == [b |-> B, d |-> decode]

\* a failure that leaves the byte cursor as the place of the error
FailAtCursor(st, code, at) ==
    [st EXCEPT !.d.state = "error",
               !.d.error = [code |-> code, pc |-> st.d.pc],
               !.d.errors = @ + 1]

\* the decode fails: one diagnostic with the offset of the offending opcode
Fail(st, code, at) ==
    [st EXCEPT !.d.state = "error",
               !.d.error = [code |-> code, pc |-> at],
               !.d.errors = @ + 1]

\* a cursor that stays where it is
AdvanceNone(st, n) == st

\* the byte cursor moves over the n bytes of an accepted opcode
Advance(st, n) == [st EXCEPT !.d.pc = @ + n]

\* the builder after a call issued by the decoder
Issue(st, b1) == [st EXCEPT !.b = b1, !.d.calls = @ + 1]

\* a production opens: its children are decoded next
Open(st, name, at, need, kind) ==
    [st EXCEPT !.d.stack = <<[op |-> name, at |-> at, need |-> need,
                              kind |-> kind, vals |-> <<>>]>> \o @]

\* a production is complete with the given value: it is handed to the open
\* production around it, which issues its builder call once it has all of
\* its children
RECURSIVE Complete(_, _)
Complete(st, value) ==
    IF st.d.stack = <<>> THEN st
    ELSE IF Head(st.d.stack).need > 1
         THEN [st EXCEPT !.d.stack[1].need = @ - 1,
                         !.d.stack[1].vals = Append(@, value)]
         ELSE Bind([st EXCEPT !.d.stack = Tail(@)], LAMBDA popped :
              CASE Head(st.d.stack).op = "Return" ->
                      Bind(Return(popped.b, <<value>>), LAMBDA r :
                      Complete(Issue(popped, r), 0))
                [] OTHER -> Complete(popped, 0))

\* the production whose opcode with table entry e is at the cursor; imm is
\* its immediate byte
DecodeOpcode(st, e, imm) ==
    CASE e.name = "Nop" -> Complete(Advance(st, 1), 0)
      [] e.name = "Block" ->
            IF imm = 0 THEN Complete(Advance(st, 2), 0)
            ELSE Open(Advance(st, 2), e.name, st.d.pc, imm, e.child)
      [] e.name = "Int8" ->
            Bind(Int32Constant(st.b, imm), LAMBDA k :
            Complete(Issue(Advance(st, 2), k), k.ret))
      [] OTHER -> Open(Advance(st, 1), e.name, st.d.pc, e.children, e.child)

\* the type a production must have at the cursor
Expected(d) == IF d.stack = <<>> THEN "stmt" ELSE Head(d.stack).kind

\* one production: at the end of the window the body is complete, or an
\* open production is cut short; otherwise the opcode byte is read and
\* checked against the table, the expected type and the bytes left
DecodeProduction(st) ==
    IF st.d.pc = Len(st.d.bytes)
    THEN IF st.d.stack # <<>>
         THEN Fail(st, "Truncated", Head(st.d.stack).at)
         ELSE IF st.d.bytes = <<>>
              THEN Bind(ReturnVoid(st.b), LAMBDA r :
                   [Issue(st, r) EXCEPT !.d.state = "ok"])
              ELSE [st EXCEPT !.d.state = "ok"]
    ELSE IF st.d.bytes[st.d.pc + 1] + 1 \notin DOMAIN DecodeOpcodes
    THEN Fail(st, "UnknownOpcode", st.d.pc)
    ELSE Bind(DecodeOpcodes[st.d.bytes[st.d.pc + 1] + 1], LAMBDA e :
         IF e.kind # Expected(st.d) THEN Fail(st, "TypeError", st.d.pc)
         ELSE IF st.d.pc + 1 + e.imm > Len(st.d.bytes)
              THEN Fail(st, "Truncated", st.d.pc)
              ELSE DecodeOpcode(st, e, IF e.imm = 0 THEN 0
                                       ELSE st.d.bytes[st.d.pc + 2]))

InitDecode ==
    /\ InitCommon(1)
    /\ module = NoModule
    /\ target = [wasm_64 |-> FALSE, machine |-> {}]

\* DecodeWasmFunction(isolate, &zone, nullptr, buffer.start, buffer.end)
StartDecode(bytes) ==
    /\ decode.state = "idle"
    /\ decode' = [decode EXCEPT !.state = "decoding", !.bytes = bytes]
    /\ UNCHANGED <<nodes, graph_start, graph_end, control, effect, traps,
                   effects, mem_buffer, mem_size, function_table, fatal,
                   module, target, last, env, locals, run,
                   kSimpleExprSigTable, threads>>

\* the decoder takes one production; open productions never outnumber the
\* bytes of the window
DecodeStep ==
    /\ decode.state = "decoding"
    /\ Len(decode.stack) <= MaxBytes
    /\ Bind(DecodeProduction(Decoder), LAMBDA st :
           /\ SetB(st.b)
           /\ decode' = st.d)
    /\ UNCHANGED <<module, target, last, env, locals, run, kSimpleExprSigTable, threads>>

\* after a failure the open productions return one by one
Unwind ==
    /\ decode.state = "error"
    /\ decode.stack # <<>>
    /\ decode' = [decode EXCEPT !.stack = Tail(@)]
    /\ UNCHANGED <<nodes, graph_start, graph_end, control, effect, traps,
                   effects, mem_buffer, mem_size, function_table, fatal,
                   module, target, last, env, locals, run,
                   kSimpleExprSigTable, threads>>

NextDecode ==
    \/ \E bytes \in Windows : StartDecode(bytes)
    \/ DecodeStep
    \/ Unwind

SpecDecode == InitDecode /\ [][NextDecode]_vars

\* a decode that has started keeps going until it has returned
SpecDecodeFair == SpecDecode /\ WF_vars(DecodeStep) /\ WF_vars(Unwind)

\* the decode has returned
DecodeReturned ==
    \/ decode.state = "ok"
    \/ decode.state = "error" /\ decode.stack = <<>>

\* C13: decoding always terminates: for every byte window, well-formed or
\* not, the decode eventually returns success or an error; every production
\* that opens has moved the cursor over at least one byte, and the cursor
\* never moves backwards or past the end.
C13_DecodeTerminates ==
    /\ [](decode.pc <= Len(decode.bytes))
    /\ [][/\ decode'.pc >= decode.pc
          /\ Len(decode'.stack) > Len(decode.stack) => decode'.pc > decode.pc]_vars
    /\ (decode.state = "decoding") ~> DecodeReturned

C13_Witness ==
    /\ DecodeReturned
    /\ decode.state = "error"
    /\ decode.error.code = "Truncated"
    /\ Len(decode.bytes) = MaxBytes

\* C14: a decode failure is reported once and aborts the decode: from the
\* failure on the cursor does not move, no builder call is issued and the
\* graph does not change, there is exactly one diagnostic, and its pc is the
\* offset inside the window of the opcode that failed.
C14_FailureAborts ==
    /\ [](decode.state = "error" =>
             /\ decode.errors = 1
             /\ decode.error.pc \in 0..(Len(decode.bytes) - 1)
             /\ decode.error.pc <= decode.pc)
    /\ [](decode.state # "error" => decode.errors = 0)
    /\ [][decode.state = "error" =>
             /\ decode'.state = "error"
             /\ decode'.pc = decode.pc
             /\ decode'.calls = decode.calls
             /\ decode'.error = decode.error
             /\ decode'.errors = decode.errors
             /\ nodes' = nodes]_vars

C14_Witness ==
    /\ decode.state = "error"
    /\ decode.stack = <<>>
    /\ decode.calls > 0
    /\ decode.error.code = "TypeError"
    /\ decode.error.pc > 0

-----------------------------------------------------------------------------
(* SpecTrap: trap sites of one function build                              *)

\* trap sites per build
MaxTrapSites == 3

\* the reasons of the conditional trap sites
SiteReasons == {"MemOutOfBounds", "DivByZero", "FuncInvalid"}

\* function_env->module: null, or a module without or with a context
TrapModules ==
    {NoModule} \cup
    {[present |-> TRUE, asm_js |-> FALSE, has_context |-> c, size |-> 0] :
        c \in BOOLEAN}

InitTrap ==
    /\ InitCommon(1)
    /\ module \in TrapModules
    /\ target = [wasm_64 |-> FALSE, machine |-> {}]

\* trap->AddTrapIf(reason, get_local 0, iftrue)
DoAddTrapIf(reason, iftrue) ==
    /\ last.n < MaxTrapSites
    /\ Bind(AddTrapIf(B, reason, Param(0), iftrue), LAMBDA b1 :
           /\ SetB(b1)
           /\ last' = [CallRecord("AddTrapIf", reason, <<Param(0), iftrue>>,
                                  B, b1) EXCEPT !.sites[reason] = @ + 1])
    /\ UNCHANGED <<module, target, env, locals, run, decode,
                   kSimpleExprSigTable, threads>>

\* TFBuilder::Unreachable()
DoUnreachable ==
    /\ last.n < MaxTrapSites
    /\ Bind(Unreachable(B), LAMBDA b1 :
           /\ SetB(b1)
           /\ last' = [CallRecord("Unreachable", "Unreachable", <<>>, B, b1)
                          EXCEPT !.sites["Unreachable"] = @ + 1])
    /\ UNCHANGED <<module, target, env, locals, run, decode,
                   kSimpleExprSigTable, threads>>

NextTrap ==
    \/ \E reason \in SiteReasons, iftrue \in BOOLEAN : DoAddTrapIf(reason, iftrue)
    \/ DoUnreachable

SpecTrap == InitTrap /\ [][NextTrap]_vars

\* the nodes with the given operator
NodesOf(op) == {i \in 1..Len(nodes) : nodes[i].op = op}

\* the reasons that have had a trap site
UsedReasons == {r \in TrapReasonSet : last.sites[r] > 0}

\* C15: every trap reason with n >= 1 trap sites (AddTrapIf or Unreachable)
\* has exactly one Merge and one EffectPhi; after the n-th site the Merge has
\* n control inputs, the EffectPhi has n effect inputs followed by the Merge
\* as its last input, and the arity of each operator is n.  A reason without
\* a site has no trap block.
C15_OneTrapBlockPerReason ==
    /\ \A r \in TrapReasonSet \ UsedReasons : traps[r] = 0
    /\ \A r \in UsedReasons :
          /\ traps[r] \in NodesOf("Merge")
          /\ effects[r] \in NodesOf("EffectPhi")
          /\ Len(nodes[traps[r]].in) = last.sites[r]
          /\ nodes[traps[r]].val = last.sites[r]
          /\ Len(nodes[effects[r]].in) = last.sites[r] + 1
          /\ nodes[effects[r]].in[last.sites[r] + 1] = traps[r]
          /\ \A i \in 1..last.sites[r] : nodes[effects[r]].in[i] # traps[r]
          /\ nodes[effects[r]].val = last.sites[r]
    /\ \A r, q \in UsedReasons : traps[r] = traps[q] => r = q
    /\ Cardinality(NodesOf("Merge")) = Cardinality(UsedReasons)
    /\ Cardinality(NodesOf("EffectPhi")) = Cardinality(UsedReasons)

C15_Witness ==
    /\ last.sites["MemOutOfBounds"] = 2
    /\ last.sites["Unreachable"] = 1
    /\ last.call = "AddTrapIf"
    /\ Len(nodes[effects["MemOutOfBounds"]].in) = 3

\* C16: after AddTrapIf(reason, cond, iftrue), on the first and on every
\* later use of the reason and for both values of iftrue: the control cursor
\* is the projection of the new Branch on which the trap is not taken, the
\* trap-side projection is an input of the reason's Merge, and the effect
\* cursor is the effect that was current before the call.
C16_AddTrapIfCursors ==
    last.call = "AddTrapIf" =>
        /\ nodes[last.len + 1].op = "Branch"
        /\ nodes[last.len + 1].in = <<last.args[1], last.control>>
        /\ control = Projection(last.len + 1,
                                IF last.args[2] THEN "IfFalse" ELSE "IfTrue")
        /\ control \in NewNodes
        /\ Projection(last.len + 1,
                      IF last.args[2] THEN "IfTrue" ELSE "IfFalse")
               \in NewNodes \cap Range(nodes[traps[last.opcode]].in)
        /\ effect = last.effect

C16_Witness ==
    /\ last.call = "AddTrapIf"
    /\ last.sites[last.opcode] = 2
    /\ last.args[2] = FALSE
    /\ last.sites["Unreachable"] = 1
    /\ effect # graph_start
    /\ effect = last.effect

\* the calls of the runtime throw in the trap block of merge m
ThrowCallsOf(m) ==
    {i \in NodesOf("Call") : nodes[i].in[Len(nodes[i].in)] = m}

\* the Returns of the sentinel word in the trap block of merge m: on the
\* merge itself or behind the block's runtime throw
SentinelReturnsOf(m) ==
    {i \in NodesOf("Return") :
        /\ nodes[nodes[i].in[1]].op = "Int32Constant"
        /\ nodes[nodes[i].in[1]].val = kDeadBeef
        /\ nodes[i].in[3] \in {m} \cup ThrowCallsOf(m)}

\* C17: the terminator of a materialized trap block depends on the module
\* context: with a module context the block ends in the call of the runtime
\* throw, and the Return of the sentinel word is built only when there is no
\* module context; no trap block has both.
C17_TrapTerminator ==
    \A r \in UsedReasons :
        IF module.present /\ module.has_context
        THEN /\ ThrowCallsOf(traps[r]) # {}
             /\ SentinelReturnsOf(traps[r]) = {}
        ELSE /\ ThrowCallsOf(traps[r]) = {}
             /\ SentinelReturnsOf(traps[r]) # {}

\* the part of C17 the code keeps: a trap block calls the runtime throw
\* exactly when there is a module context
ThrowIffContext ==
    \A r \in UsedReasons :
        (ThrowCallsOf(traps[r]) # {}) <=> (module.present /\ module.has_context)

\* a trap block with a context has both terminators
BothTerminators ==
    \E r \in UsedReasons :
        /\ ThrowCallsOf(traps[r]) # {}
        /\ SentinelReturnsOf(traps[r]) # {}

-----------------------------------------------------------------------------
(* tf-builder.cc: the wrappers between JavaScript and WASM                 *)

\* TFBuilder::Start(params): a new start node, made the start of the graph
Start(b, params) ==
    Bind(NewNodeV(b, "Start", <<>>, params, 0), LAMBDA s :
    [s EXCEPT !.start = s.ret])

\* TFBuilder::ToJS(node, context, type)
ToJS(b, node, type) ==
    CASE type = "I32" -> NewNode(b, "ChangeInt32ToTagged", <<node>>)
      [] type = "I64" ->
            Bind(NewNode(b, "TruncateInt64ToInt32", <<node>>), LAMBDA t :
            NewNode(t, "ChangeInt32ToTagged", <<t.ret>>))
      [] type = "F32" ->
            Bind(NewNode(b, "ChangeFloat32ToFloat64", <<node>>), LAMBDA t :
            NewNode(t, "ChangeFloat64ToTagged", <<t.ret>>))
      [] type = "F64" -> NewNode(b, "ChangeFloat64ToTagged", <<node>>)
      [] type = "Stmt" -> CachedConstant(b, "UndefinedConstant", 0, 0)

\* TFBuilder::FromJS(node, context, type): a ToNumber on both cursors, which
\* it becomes, then the change of representation
FromJS(b, node, context, type) ==
    Bind(CachedConstant(b, "EmptyFrameState", 0, 0), LAMBDA fs :
    Bind(NewNode(fs, "ToNumber", <<node, context, fs.ret, b.effect, b.control>>),
         LAMBDA num :
    Bind(NewNode([num EXCEPT !.control = num.ret, !.effect = num.ret],
                 "ChangeTaggedToFloat64", <<num.ret>>), LAMBDA f :
    CASE type \in {"I32", "I64"} ->
            Bind(NewNode(f, "TruncateFloat64ToInt32", <<f.ret>>), LAMBDA t :
            IF type = "I32" THEN t
            ELSE NewNode(t, "ChangeInt32ToInt64", <<t.ret>>))
      [] type = "F32" -> NewNode(f, "TruncateFloat64ToFloat32", <<f.ret>>)
      [] type = "F64" -> f
      [] type = "Stmt" -> Int32Constant(f, 0))))

\* the parameter loop of BuildJSToWasmWrapper from parameter i on; ret is the
\* sequence of the converted arguments
RECURSIVE JSParams(_, _, _, _, _)
JSParams(b, types, context, i, args) ==
    IF i > Len(types) THEN [b EXCEPT !.ret = args]
    ELSE Bind(NewNodeV(b, "Parameter", <<b.start>>, i - 1, 0), LAMBDA param :
         Bind(FromJS(param, param.ret, context, types[i]), LAMBDA num :
         JSParams(num, types, context, i + 1, Append(args, num.ret))))

\* TFBuilder::BuildJSToWasmWrapper(wasm_code, sig)
BuildJSToWasmWrapper(b, sig) ==
    Bind(Start(b, Len(sig.params) + 3), LAMBDA start :
    Bind(NewNodeV([start EXCEPT !.control = start.ret, !.effect = start.ret],
                  "Parameter", <<start.ret>>, Len(sig.params) + 1, 0),
         LAMBDA context :
    Bind(CachedConstant(context, "CodeConstant", 0, 0), LAMBDA code :
    Bind(JSParams(code, sig.params, context.ret, 1, <<code.ret>>), LAMBDA args :
    Bind(NewNode(args, "Call", args.ret \o <<args.effect, args.control>>),
         LAMBDA call :
    Bind(ToJS(call, call.ret, sig.ret), LAMBDA jsval :
    Bind(NewNode(jsval, "Return", <<jsval.ret, call.ret, start.ret>>),
         LAMBDA ret :
    [MergeControlToEnd(ret, ret.ret) EXCEPT !.ret = 0])))))))

\* the parameter loop of BuildWasmToJSWrapper from parameter i on
RECURSIVE WasmParams(_, _, _, _)
WasmParams(b, types, i, args) ==
    IF i > Len(types) THEN [b EXCEPT !.ret = args]
    ELSE Bind(NewNodeV(b, "Parameter", <<b.start>>, i - 1, 0), LAMBDA param :
         Bind(ToJS(param, param.ret, types[i]), LAMBDA js :
         WasmParams(js, types, i + 1, Append(args, js.ret))))

\* TFBuilder::BuildWasmToJSWrapper(function, sig) for a function with js_count
\* formal parameters: a direct call on an exact arity match, the Call builtin
\* otherwise
BuildWasmToJSWrapper(b, js_count, sig) ==
    Bind(Start(b, Len(sig.params) + 3), LAMBDA start :
    Bind(CachedConstant([start EXCEPT !.control = start.ret,
                                      !.effect = start.ret],
                        "FunctionContextConstant", 0, 0), LAMBDA context :
    Bind(IF js_count = Len(sig.params) THEN [context EXCEPT !.ret = <<>>]
         ELSE Bind(CachedConstant(context, "HeapConstant", 0, 0), LAMBDA stub :
              [stub EXCEPT !.ret = <<stub.ret>>]), LAMBDA callee :
    Bind(CachedConstant(callee, "FunctionConstant", 0, 0), LAMBDA function :
    Bind(Int32Constant(function, Len(sig.params)), LAMBDA argc :
    Bind(CachedConstant(argc, "UndefinedConstant", 0, 0), LAMBDA undefined :
    Bind(WasmParams(undefined, sig.params, 1,
                    callee.ret \o <<function.ret>>
                        \o (IF js_count = Len(sig.params) THEN <<>>
                            ELSE <<argc.ret>>)
                        \o <<undefined.ret>>), LAMBDA args :
    Bind(NewNode(args, "Call",
                 args.ret \o (IF js_count = Len(sig.params)
                              THEN <<undefined.ret, argc.ret>> ELSE <<>>)
                     \o <<context.ret, args.effect, args.control>>),
         LAMBDA call :
    Bind(FromJS(call, call.ret, context.ret, sig.ret), LAMBDA val :
    Bind(NewNode(val, "Return", <<val.ret, call.ret, start.ret>>), LAMBDA ret :
    [MergeControlToEnd(ret, ret.ret) EXCEPT !.ret = 0]))))))))))

-----------------------------------------------------------------------------
(* SpecEnd: the terminators of a graph                                     *)

\* terminator-making calls per graph
MaxEndCalls == 3

\* signatures of the wrapped functions; Stmt is the return type of a
\* signature without a return value
Sigs ==
    {[params |-> <<>>, ret |-> "Stmt"],
     [params |-> <<"I32", "F64">>, ret |-> "I32"],
     [params |-> <<"I64">>, ret |-> "F32"]}

InitEnd ==
    /\ InitCommon(1)
    /\ module \in TrapModules
    /\ target = [wasm_64 |-> FALSE, machine |-> {}]

\* the builder call b1 of the given name on B
EndCall(name, arg, b1) ==
    /\ last.n < MaxEndCalls
    /\ SetB(b1)
    /\ last' = CallRecord(name, arg, <<>>, B, b1)
    /\ UNCHANGED <<module, target, env, locals, run, decode,
                   kSimpleExprSigTable, threads>>

\* Return(1, {get_local 0})
DoReturn == EndCall("Return", "", Return(B, <<Param(0)>>))

DoReturnVoid == EndCall("ReturnVoid", "", ReturnVoid(B))

\* Terminate(*effect, *control)
DoTerminate == EndCall("Terminate", "", Terminate(B, effect, control))

\* a trap site: the first one of a reason materializes its trap block
DoTrapSite(reason) ==
    /\ last.n < MaxEndCalls
    /\ Bind(IF reason = "Unreachable" THEN Unreachable(B)
            ELSE AddTrapIf(B, reason, Param(0), TRUE), LAMBDA b1 :
           /\ SetB(b1)
           /\ last' = [CallRecord("TrapSite", reason, <<>>, B, b1)
                          EXCEPT !.sites[reason] = @ + 1])
    /\ UNCHANGED <<module, target, env, locals, run, decode,
                   kSimpleExprSigTable, threads>>

\* the wrappers take the call descriptor from the module
DoBuildJSToWasmWrapper(sig) ==
    /\ module.present
    /\ EndCall("BuildJSToWasmWrapper", sig.ret, BuildJSToWasmWrapper(B, sig))

DoBuildWasmToJSWrapper(js_count, sig) ==
    EndCall("BuildWasmToJSWrapper", sig.ret,
            BuildWasmToJSWrapper(B, js_count, sig))

NextEnd ==
    \/ DoReturn
    \/ DoReturnVoid
    \/ DoTerminate
    \/ \E reason \in {"Unreachable", "DivByZero"} : DoTrapSite(reason)
    \/ \E sig \in Sigs : DoBuildJSToWasmWrapper(sig)
    \/ \E sig \in Sigs, js_count \in 0..1 : DoBuildWasmToJSWrapper(js_count, sig)

SpecEnd == InitEnd /\ [][NextEnd]_vars

\* the terminator nodes of the graph
Terminators == NodesOf("Return") \cup NodesOf("Terminate") \cup NodesOf("Throw")

\* C18: after any sequence of Return, ReturnVoid, Terminate, wrapper builds
\* and trap sites, a graph with terminators has exactly one End; its inputs
\* are exactly the terminators created so far, each once and in the order of
\* their creation; the End was created with the first terminator, and its
\* operator has the arity of its inputs.  A graph without terminators has
\* no End.
C18_SingleEnd ==
    IF Terminators = {}
    THEN graph_end = 0 /\ NodesOf("End") = {}
    ELSE /\ NodesOf("End") = {graph_end}
         /\ Range(nodes[graph_end].in) = Terminators
         /\ Len(nodes[graph_end].in) = Cardinality(Terminators)
         /\ nodes[graph_end].val = Len(nodes[graph_end].in)
         /\ \A i \in 2..Len(nodes[graph_end].in) :
               nodes[graph_end].in[i - 1] < nodes[graph_end].in[i]
         /\ graph_end = nodes[graph_end].in[1] + 1

C18_Witness ==
    /\ last.n = 3
    /\ last.call = "BuildJSToWasmWrapper"
    /\ NodesOf("Terminate") # {}
    /\ UsedReasons # {}
    /\ Len(nodes[graph_end].in) = 3

-----------------------------------------------------------------------------
(* tf-builder.cc: globals and calls                                        *)

\* kPointerSizeLog2 and kPointerSize of the build
kPointerSizeLog2 == IF target.wasm_64 THEN 3 ELSE 2

kPointerSize == IF target.wasm_64 THEN 8 ELSE 4

\* access.header_size - access.tag() of a FixedArray element: the length
\* and map words, less the heap object tag
FixedOffset == kPointerSize + kPointerSize - 1

\* graph->IntPtrConstant(module->globals_area + globals->at(index).offset),
\* named by the offset in the globals area
GlobalAddr(b, index) ==
    CachedConstant(b, "IntPtrConstant", module.globals[index + 1].offset, 1)

\* TFBuilder::LoadGlobal(index)
LoadGlobal(b, index) ==
    Bind(GlobalAddr(b, index), LAMBDA addr :
    Bind(Int32Constant(addr, 0), LAMBDA zero :
    Bind(NewNodeV(zero, "Load", <<addr.ret, zero.ret, b.effect, b.control>>,
                  MachineTypeFor(module.globals[index + 1].type), 0),
         LAMBDA node :
    [node EXCEPT !.effect = node.ret])))

\* TFBuilder::StoreGlobal(index, val)
StoreGlobal(b, index, val) ==
    Bind(GlobalAddr(b, index), LAMBDA addr :
    Bind(Int32Constant(addr, 0), LAMBDA zero :
    Bind(NewNodeV(zero, "Store",
                  <<addr.ret, zero.ret, val, b.effect, b.control>>,
                  MachineTypeFor(module.globals[index + 1].type), 0),
         LAMBDA node :
    [node EXCEPT !.effect = node.ret])))

\* a call that leaves the effect cursor where it was
MakeWasmCallEffectKept(b, params, args) ==
    NewNode(b, "Call", SubSeq(args, 1, params + 1) \o <<b.effect, b.control>>)

\* TFBuilder::MakeWasmCall(sig, args) for a signature with the given number
\* of parameters: args[params + 1] and args[params + 2] take the cursors
MakeWasmCall(b, params, args) ==
    Bind(NewNode(b, "Call",
                 SubSeq(args, 1, params + 1) \o <<b.effect, b.control>>),
         LAMBDA call :
    [call EXCEPT !.effect = call.ret])

\* TFBuilder::CallDirect(index, args): args[0] becomes the code constant
CallDirect(b, index, args) ==
    Bind(CachedConstant(b, "CodeConstant", index, 0), LAMBDA code :
    MakeWasmCall(code, module.functions[index + 1], <<code.ret>> \o Tail(args)))

\* TFBuilder::FunctionTable()
FunctionTable(b) ==
    IF b.function_table = 0
    THEN Bind(CachedConstant(b, "FunctionTableConstant", 0, 0), LAMBDA k :
         [k EXCEPT !.function_table = k.ret])
    ELSE [b EXCEPT !.ret = b.function_table]

\* the address of the table element at key plus a byte offset
TableElement(b, key, offset) ==
    Bind(Int32Constant(b, kPointerSizeLog2), LAMBDA log2 :
    Bind(NewNode(log2, "Word32Shl", <<key, log2.ret>>), LAMBDA shl :
    Bind(Int32Constant(shl, offset), LAMBDA k :
    NewNode(k, "Int32Add", <<shl.ret, k.ret>>))))

\* a table load on the cursors of b
TableLoad(b, table, key, offset) ==
    Bind(TableElement(b, key, offset), LAMBDA at :
    NewNodeV(at, "Load", <<table, at.ret, b.effect, b.control>>, 0, 0))

\* an indirect call that loads the code before it checks the signature
CallIndirectCodeFirst(b, index, args) ==
    Bind(FunctionTable(b), LAMBDA table :
    Bind(Int32Constant(table, module.table_size), LAMBDA size :
    Bind(NewNode(size, "Uint32LessThan", <<args[1], size.ret>>),
         LAMBDA in_bounds :
    Bind(AddTrapIf(in_bounds, "FuncInvalid", in_bounds.ret, FALSE),
         LAMBDA checked :
    Bind(TableLoad(checked, table.ret, args[1],
                   FixedOffset + kPointerSize * module.table_size),
         LAMBDA load_code :
    Bind(TableLoad(load_code, table.ret, args[1], FixedOffset),
         LAMBDA load_sig :
    Bind(CachedConstant(load_sig, "SmiConstant", index, 0), LAMBDA smi :
    Bind(NewNode(smi, "WordEqual", <<load_sig.ret, smi.ret>>),
         LAMBDA sig_match :
    Bind(AddTrapIf(sig_match, "FuncSigMismatch", sig_match.ret, FALSE),
         LAMBDA matched :
    MakeWasmCall(matched, module.signatures[index + 1],
                 <<load_code.ret>> \o Tail(args)))))))))))

\* TFBuilder::CallIndirect(index, args)
CallIndirect(b, index, args) ==
    Bind(FunctionTable(b), LAMBDA table :
    Bind(Int32Constant(table, module.table_size), LAMBDA size :
    Bind(NewNode(size, "Uint32LessThan", <<args[1], size.ret>>),
         LAMBDA in_bounds :
    Bind(AddTrapIf(in_bounds, "FuncInvalid", in_bounds.ret, FALSE),
         LAMBDA checked :
    Bind(TableLoad(checked, table.ret, args[1], FixedOffset), LAMBDA load_sig :
    Bind(CachedConstant(load_sig, "SmiConstant", index, 0), LAMBDA smi :
    Bind(NewNode(smi, "WordEqual", <<load_sig.ret, smi.ret>>),
         LAMBDA sig_match :
    Bind(AddTrapIf(sig_match, "FuncSigMismatch", sig_match.ret, FALSE),
         LAMBDA matched :
    Bind(TableLoad(matched, table.ret, args[1],
                   FixedOffset + kPointerSize * module.table_size),
         LAMBDA load_code :
    MakeWasmCall(load_code, module.signatures[index + 1],
                 <<load_code.ret>> \o Tail(args)))))))))))

-----------------------------------------------------------------------------
(* SpecEffect: memory accesses, global accesses and calls of one build     *)

\* effectful calls and trap checks per build
MaxEffectCalls == 3

\* a module with a memory, two globals, two signatures (by their parameter
\* counts), two functions and a function table
EffectModules ==
    {[present |-> TRUE, asm_js |-> a, has_context |-> c, size |-> 32,
      globals |-> <<[type |-> "I32", offset |-> 0],
                    [type |-> "F64", offset |-> 8]>>,
      signatures |-> <<0, 1>>, functions |-> <<1, 0>>, table_size |-> 2] :
        a \in BOOLEAN, c \in BOOLEAN}

InitEffect ==
    /\ InitCommon(2)
    /\ module \in EffectModules
    /\ target \in {[wasm_64 |-> w, machine |-> {}] : w \in BOOLEAN}

\* the builder call b1 of the given name on B
EffectCall(name, arg, b1) ==
    /\ last.n < MaxEffectCalls
    /\ SetB(b1)
    /\ last' = CallRecord(name, arg, <<>>, B, b1)
    /\ UNCHANGED <<module, target, env, locals, run, decode,
                   kSimpleExprSigTable, threads>>

\* LoadMem(kAstI64, kMemU16, get_local 0, 0): a load that is widened
EffLoadMem ==
    EffectCall("LoadMem", "U16", LoadMem(B, "I64", "U16", Param(0), 0))

\* StoreMem(kMemI32, get_local 0, 0, get_local 1)
EffStoreMem ==
    EffectCall("StoreMem", "I32", StoreMem(B, "I32", Param(0), 0, Param(1)))

\* the load of one global and the store to the other
EffLoadGlobal == EffectCall("LoadGlobal", 1, LoadGlobal(B, 1))

EffStoreGlobal == EffectCall("StoreGlobal", 0, StoreGlobal(B, 0, Param(1)))

\* CallDirect(0, {nullptr, get_local 1})
EffCallDirect ==
    EffectCall("CallDirect", 0, CallDirect(B, 0, <<0, Param(1)>>))

\* CallIndirect(index, {get_local 0, get_local 1, ...})
EffCallIndirect(index) ==
    EffectCall("CallIndirect", index,
               CallIndirect(B, index, <<Param(0), Param(1)>>))

\* a trap check of an expression between the effectful calls
EffTrapCheck ==
    EffectCall("AddTrapIf", "DivByZero",
               AddTrapIf(B, "DivByZero", Param(1), TRUE))

NextEffect ==
    \/ EffLoadMem
    \/ EffStoreMem
    \/ EffLoadGlobal
    \/ EffStoreGlobal
    \/ EffCallDirect
    \/ \E index \in 0..1 : EffCallIndirect(index)
    \/ EffTrapCheck

SpecEffect == InitEffect /\ [][NextEffect]_vars

\* the effect input of a node that takes effect and control
EffectInput(n) == nodes[n].in[Len(nodes[n].in) - 1]

\* the control input of a node that takes control
ControlInput(n) == nodes[n].in[Len(nodes[n].in)]

\* the nodes the six effectful calls make for their access or call: the
\* loads and stores of memory and globals, and the calls of WASM code; not
\* the loads from the function table nor the runtime calls of a trap block
EffectfulNodes ==
    {n \in NodesOf("Load") \cup NodesOf("Store") :
        nodes[n].in[1] # function_table}
    \cup NodesOf("CheckedLoad") \cup NodesOf("CheckedStore")
    \cup {n \in NodesOf("Call") :
             nodes[nodes[n].in[1]].op # "CEntryStubConstant"}

EffectfulCalls ==
    {"LoadMem", "StoreMem", "LoadGlobal", "StoreGlobal", "CallDirect",
     "CallIndirect"}

\* C19: for any sequence of LoadMem, StoreMem, LoadGlobal, StoreGlobal,
\* CallDirect and CallIndirect, interleaved with trap checks, each call
\* makes one effectful node, which takes the effect cursor of before the
\* call as its effect input and becomes the effect cursor; the effect chain
\* from the cursor back to Start lists the effectful nodes in the order of
\* their creation, and a trap check leaves the cursor as it was.
C19_EffectChainOrder ==
    /\ last.call \in EffectfulCalls =>
          /\ EffectfulNodes \cap NewNodes = {effect}
          /\ EffectInput(effect) = last.effect
    /\ last.call = "AddTrapIf" =>
          /\ EffectfulNodes \cap NewNodes = {}
          /\ effect = last.effect
    /\ effect = IF EffectfulNodes = {} THEN graph_start
                ELSE CHOOSE n \in EffectfulNodes :
                         \A m \in EffectfulNodes : m <= n
    /\ \A n \in EffectfulNodes :
          EffectInput(n) =
              IF \A m \in EffectfulNodes : m >= n THEN graph_start
              ELSE CHOOSE p \in EffectfulNodes :
                       /\ p < n
                       /\ \A m \in EffectfulNodes : m < n => m <= p

C19_Witness ==
    /\ last.n = 3
    /\ last.call = "StoreGlobal"
    /\ nodes[EffectInput(effect)].op = "Call"
    /\ nodes[nodes[EffectInput(effect)].in[1]].op = "Load"
    /\ nodes[EffectInput(EffectInput(effect))].op \in {"Load", "CheckedLoad"}
    /\ EffectInput(EffectInput(EffectInput(effect))) = graph_start

\* n is the address of the table element at key plus the byte offset:
\* (key << kPointerSizeLog2) + offset
IsTableElement(n, key, offset) ==
    /\ nodes[n].op = "Int32Add"
    /\ nodes[nodes[n].in[1]].op = "Word32Shl"
    /\ nodes[nodes[n].in[1]].in[1] = key
    /\ nodes[nodes[nodes[n].in[1]].in[2]].op = "Int32Constant"
    /\ nodes[nodes[nodes[n].in[1]].in[2]].val = kPointerSizeLog2
    /\ nodes[nodes[n].in[2]].op = "Int32Constant"
    /\ nodes[nodes[n].in[2]].val = offset

\* n is a load from the function table at key plus the byte offset
IsTableLoad(n, key, offset) ==
    /\ nodes[n].op = "Load"
    /\ nodes[n].in[1] = function_table
    /\ nodes[function_table].op = "FunctionTableConstant"
    /\ IsTableElement(nodes[n].in[2], key, offset)

\* br is a trap check of reason: a branch whose false projection enters the
\* trap block of the reason
IsTrapIfFalse(br, reason) ==
    /\ nodes[br].op = "Branch"
    /\ traps[reason] # 0
    /\ Projection(br, "IfFalse") \in Range(nodes[traps[reason]].in)

\* the nodes of the last CallIndirect, found from the call through its
\* inputs
IndirectCall ==
    Bind([call |-> last.ret, if_match |-> ControlInput(last.ret),
          load_code |-> nodes[last.ret].in[1]], LAMBDA c :
    Bind([br2 |-> nodes[c.if_match].in[1],
          sig_match |-> nodes[nodes[c.if_match].in[1]].in[1],
          if_in |-> ControlInput(nodes[c.if_match].in[1])], LAMBDA m :
    Bind([load_sig |-> nodes[m.sig_match].in[1],
          br1 |-> nodes[m.if_in].in[1],
          in_bounds |-> nodes[nodes[m.if_in].in[1]].in[1]], LAMBDA s :
    [call |-> c.call, if_match |-> c.if_match, load_code |-> c.load_code,
     br2 |-> m.br2, sig_match |-> m.sig_match, if_in |-> m.if_in,
     load_sig |-> s.load_sig, br1 |-> s.br1, in_bounds |-> s.in_bounds])))

\* C20: CallIndirect(index, args) emits, in this order, (a) the unsigned
\* check key < table_size trapping FuncInvalid, (b) the load of the signature
\* at slot key and its comparison with the small-integer constant of index
\* trapping FuncSigMismatch, (c) the load of the code at slot
\* key + table_size, (d) the call of the loaded code; the signature load is
\* on the in-bounds projection of (a), the check (b) is on it too, and the
\* code load and the call are on the passing projection of (b).
C20_CallIndirectOrder ==
    last.call = "CallIndirect" =>
        Bind(IndirectCall, LAMBDA c :
        /\ nodes[c.call].op = "Call"
        /\ control = c.if_match
        /\ nodes[c.if_match].op = "IfTrue"
        /\ ControlInput(c.load_code) = c.if_match
        /\ IsTableLoad(c.load_code, Param(0),
                       FixedOffset + kPointerSize * module.table_size)
        /\ IsTrapIfFalse(c.br2, "FuncSigMismatch")
        /\ nodes[c.sig_match].op = "WordEqual"
        /\ nodes[nodes[c.sig_match].in[2]].op = "SmiConstant"
        /\ nodes[nodes[c.sig_match].in[2]].val = last.opcode
        /\ IsTableLoad(c.load_sig, Param(0), FixedOffset)
        /\ nodes[c.if_in].op = "IfTrue"
        /\ ControlInput(c.load_sig) = c.if_in
        /\ IsTrapIfFalse(c.br1, "FuncInvalid")
        /\ ControlInput(c.br1) = last.control
        /\ nodes[c.in_bounds].op = "Uint32LessThan"
        /\ nodes[c.in_bounds].in[1] = Param(0)
        /\ nodes[nodes[c.in_bounds].in[2]].op = "Int32Constant"
        /\ nodes[nodes[c.in_bounds].in[2]].val = module.table_size
        /\ last.len < c.in_bounds
        /\ c.in_bounds < c.br1
        /\ c.br1 < c.load_sig
        /\ c.load_sig < c.sig_match
        /\ c.sig_match < c.br2
        /\ c.br2 < c.load_code
        /\ c.load_code < c.call)

C20_Witness ==
    /\ last.call = "CallIndirect"
    /\ last.opcode = 1
    /\ target.wasm_64
    /\ traps["FuncSigMismatch"] # 0
    /\ Len(nodes[traps["FuncSigMismatch"]].in) = 2
    /\ nodes[last.effect].op = "Store"

-----------------------------------------------------------------------------
(* Signed remainder, trap reasons and cursors of division and remainder    *)

LastIsRemS ==
    /\ LastIsDivRem
    /\ last.opcode \in {"I32RemS", "I64RemS"}

\* the result of the last signed remainder is a phi of the constant 0 and
\* the modulo, on the merge of the two projections of a branch on
\* divisor == -1, and the modulo is on the projection where divisor # -1
RemSDiamond ==
    /\ nodes[last.ret].op = "Phi"
    /\ nodes[nodes[last.ret].in[1]].op
           = MachineOp("Int", WordWidth(last.opcode), "Constant")
    /\ nodes[nodes[last.ret].in[1]].val = 0
    /\ nodes[nodes[last.ret].in[1]].hi = 0
    /\ nodes[ArithNode].op = MachineOp("Int", WordWidth(last.opcode), "Mod")
    /\ nodes[ArithNode].in[1] = last.args[1]
    /\ nodes[ArithNode].in[2] = last.args[2]
    /\ nodes[ArithControl].op = "IfFalse"
    /\ nodes[nodes[ArithControl].in[1]].op = "Branch"
    /\ IsEqualConst(nodes[nodes[ArithControl].in[1]].in[1], last.args[2], -1,
                    IF WordWidth(last.opcode) = 32 THEN 0 ELSE -1)
    /\ nodes[nodes[last.ret].in[3]].op = "Merge"
    /\ nodes[nodes[last.ret].in[3]].in
           = <<Projection(nodes[ArithControl].in[1], "IfTrue"), ArithControl>>

\* C21: for signed remainder the modulo is control-dependent on the
\* projection where divisor # -1, the result is a phi of the constant 0 and
\* the modulo, so that a divisor of -1 gives 0 without a modulo; and that
\* projection lies after the zero-divisor trap check.
C21_RemSMinusOne ==
    LastIsRemS =>
        /\ RemSDiamond
        /\ nodes[last.args[2]].op = "Parameter" => ZeroCheckDominates

\* the trap sides of the divisor-is-zero checks the last Binop inserted
ZeroCheckTrapSides ==
    {ZeroTest(br, last.args[2])[1] : br \in NewNodes} \ {0}

\* the trap sides of the last Binop's zero checks enter the trap block of
\* the given reason
ZeroChecksTrapAs(reason) ==
    \A p \in ZeroCheckTrapSides :
        /\ traps[reason] # 0
        /\ p \in Range(nodes[traps[reason]].in)

\* C22 as stated: every divisor-is-zero trap check of an integer division
\* or remainder uses the reason DivByZero, so that all of them share the one
\* DivByZero trap block.
C22_ZeroChecksDivByZero == LastIsDivRem => ZeroChecksTrapAs("DivByZero")

\* C22 amended: the zero checks of the division operators use DivByZero and
\* those of the remainder operators use RemByZero; the checks of one reason
\* enter its single trap block.
C22_ZeroChecksByOperator ==
    /\ LastIsDivRem =>
          ZeroChecksTrapAs(IF last.opcode \in {"I32DivS", "I32DivU",
                                               "I64DivS", "I64DivU"}
                           THEN "DivByZero" ELSE "RemByZero")
    /\ \A r \in {"DivByZero", "RemByZero"} :
          traps[r] # 0 =>
              /\ nodes[traps[r]].op = "Merge"
              /\ NodesOf("Merge") \cap Range(nodes[traps[r]].in) = {}

C22_Witness ==
    /\ LastIsDivRem
    /\ last.n = 2
    /\ last.opcode = "I64RemU"
    /\ ZeroCheckTrapSides # {}
    /\ traps["RemByZero"] # 0
    /\ traps["DivByZero"] # 0
    /\ Len(nodes[traps["RemByZero"]].in) = 1
    /\ Len(nodes[traps["DivByZero"]].in) = 1

LastIsDivS ==
    /\ LastIsDivRem
    /\ last.opcode \in {"I32DivS", "I64DivS"}

\* the branch of the last Binop that tests x against the word lo (hi: its
\* high word), 0 if there is none
EqualBranch(x, lo, hi) ==
    IF \E br \in NewNodes :
           /\ nodes[br].op = "Branch"
           /\ IsEqualConst(nodes[br].in[1], x, lo, hi)
    THEN CHOOSE br \in NewNodes :
             /\ nodes[br].op = "Branch"
             /\ IsEqualConst(nodes[br].in[1], x, lo, hi)
    ELSE 0

\* the branch on divisor == -1 and the branch on dividend == INT_MIN
MinusOneBranch ==
    EqualBranch(last.args[2], -1, IF WordWidth(last.opcode) = 32 THEN 0 ELSE -1)

MinBranch ==
    IF WordWidth(last.opcode) = 32
    THEN EqualBranch(last.args[1], kMinInt, 0)
    ELSE EqualBranch(last.args[1], 0, kMinInt)

\* the dividend is a constant other than INT_MIN
DividendNotMin ==
    /\ nodes[last.args[1]].op \in {"Int32Constant", "Int64Constant"}
    /\ <<nodes[last.args[1]].hi, nodes[last.args[1]].val>>
           # (IF WordWidth(last.opcode) = 32 THEN <<0, kMinInt>> ELSE kMinInt64)

\* the control on which the last Binop's branch on divisor == -1 stands: the
\* non-trap projection of the zero check if one was emitted, the control
\* before the call otherwise
AfterZeroCheck ==
    IF ZeroCheckTrapSides = {} THEN last.control
    ELSE CHOOSE p \in NewNodes :
             \E br \in NewNodes : ZeroTest(br, last.args[2])[2] = p

\* C30: after Binop for signed division, for constant and non-constant
\* operands, the divide's control input is the control cursor, the effect
\* cursor is the effect before the call, and the cursor lies behind the
\* non-trap projections of the emitted checks: with the INT_MIN check it is
\* the two-input Merge of the divisor # -1 projection and the
\* dividend # INT_MIN projection, and with the check elided (the dividend a
\* constant other than INT_MIN) it is the control that was current before
\* the branch on divisor == -1.
C30_DivSCursors ==
    LastIsDivS =>
        /\ nodes[last.ret].op = MachineOp("Int", WordWidth(last.opcode), "Div")
        /\ nodes[last.ret].in = <<last.args[1], last.args[2], control>>
        /\ effect = last.effect
        /\ MinusOneBranch # 0
        /\ nodes[MinusOneBranch].in[2] = AfterZeroCheck
        /\ (MinBranch = 0) <=> DividendNotMin
        /\ IF MinBranch = 0
           THEN control = AfterZeroCheck
           ELSE /\ nodes[MinBranch].in[2] = Projection(MinusOneBranch, "IfTrue")
                /\ Projection(MinBranch, "IfTrue")
                       \in Range(nodes[traps["DivUnrepresentable"]].in)
                /\ control \in NewNodes
                /\ nodes[control].op = "Merge"
                /\ nodes[control].val = 2
                /\ nodes[control].in
                       = <<Projection(MinusOneBranch, "IfFalse"),
                           Projection(MinBranch, "IfFalse")>>

C30_Witness ==
    /\ LastIsDivS
    /\ last.n = 2
    /\ last.opcode = "I64DivS"
    /\ DividendNotMin
    /\ ZeroCheckTrapSides # {}
    /\ control # graph_start
    /\ nodes[last.control].op = "Merge"

-----------------------------------------------------------------------------
(* SpecBits: the lowered count-trailing-zeros and population-count graphs, *)
(* built on a machine without the optional operators and run on words      *)

\* A machine word is the set of the positions of its one bits (bit 0 is the
\* least significant).  The bits of an int32:
BitsOf32(v) ==
    {i \in 0..30 : ((IF v < 0 THEN v - kMinInt ELSE v) \div 2^i) % 2 = 1}
        \cup (IF v < 0 THEN {31} ELSE {})

\* the bits of a w-bit word given as its signed low and high words
WordBits(lo, hi, w) ==
    BitsOf32(lo) \cup (IF w = 64 THEN {i + 32 : i \in BitsOf32(hi)} ELSE {})

\* Word<w>Shl: the bits shifted out at the top are lost
ShlWord(x, k, w) == {i + k : i \in x} \cap (0..(w - 1))

\* Word<w>Shr: the logical right shift
ShrWord(x, k, w) == {i - k : i \in x} \cap (0..(w - 1))

\* Int<w>Add: the sum modulo 2^w, by carry propagation
RECURSIVE AddWords(_, _, _)
AddWords(x, y, w) ==
    IF y = {} THEN x
    ELSE AddWords((x \cup y) \ (x \cap y), ShlWord(x \cap y, 1, w), w)

\* the shift count of a machine shift: the count modulo the word width
ShiftCount(count, w) ==
    CHOOSE k \in 0..(w - 1) : BitsOf32(k) = {i \in count : 2^i < w}

\* the width of the machine operator op (Word32Shl, Int64Add, ...)
OpWidth(op) == IF \E i \in 1..(Len(op) - 1) : SubSeq(op, i, i + 1) = "64"
               THEN 64 ELSE 32

\* the word computed by node nd from the words vals of the nodes before it,
\* when parameter 0 holds the word x
WordOf(nd, x, vals) ==
    CASE nd.op = "Parameter" -> x
      [] nd.op = "Int32Constant" -> WordBits(nd.val, 0, 32)
      [] nd.op = "Int64Constant" -> WordBits(nd.val, nd.hi, 64)
      [] nd.op \in {"Word32And", "Word64And"} ->
            vals[nd.in[1]] \cap vals[nd.in[2]]
      [] nd.op \in {"Word32Or", "Word64Or"} ->
            vals[nd.in[1]] \cup vals[nd.in[2]]
      [] nd.op \in {"Word32Xor", "Word64Xor"} ->
            (vals[nd.in[1]] \cup vals[nd.in[2]])
                \ (vals[nd.in[1]] \cap vals[nd.in[2]])
      [] nd.op \in {"Word32Shl", "Word64Shl"} ->
            ShlWord(vals[nd.in[1]],
                    ShiftCount(vals[nd.in[2]], OpWidth(nd.op)), OpWidth(nd.op))
      [] nd.op \in {"Word32Shr", "Word64Shr"} ->
            ShrWord(vals[nd.in[1]],
                    ShiftCount(vals[nd.in[2]], OpWidth(nd.op)), OpWidth(nd.op))
      [] nd.op \in {"Int32Add", "Int64Add"} ->
            AddWords(vals[nd.in[1]], vals[nd.in[2]], OpWidth(nd.op))
      [] OTHER -> {}

\* the words of all nodes, in the order the nodes were created (the inputs
\* of a node are created before it)
RECURSIVE WordValues(_, _)
WordValues(x, vals) ==
    IF Len(vals) = Len(nodes) THEN vals
    ELSE Bind(Append(vals, WordOf(nodes[Len(vals) + 1], x, vals)), LAMBDA v :
         WordValues(x, v))

\* the 32-bit input words: the call arguments, every single-bit word, every
\* word of low ones, and alternating patterns
WordSamples ==
    ArgSamples \cup {2^i : i \in 0..30} \cup {2^i - 1 : i \in 0..30}
        \cup {1431655765, -1431655766, -65536, 252645135}

\* the high words paired with every low word
HighSamples == {0, 1, -1, kMinInt, 72384}

\* the input words <<low, high>>: 64-bit words on a 64-bit build only
InputWords(wasm_64) ==
    IF ~wasm_64 THEN {<<lo, 0>> : lo \in WordSamples}
    ELSE {<<lo, hi>> : lo \in WordSamples, hi \in HighSamples}
             \cup {<<0, hi>> : hi \in WordSamples}

BitOpcodes == {"I32Ctz", "I32Popcnt", "I64Ctz", "I64Popcnt"}

\* the test's input word is drawn when the runner is set up
InitBits ==
    /\ InitB(NewBuilder(1))
    /\ last = NoCall
    /\ env = InitEnv(1)
    /\ locals = <<>>
    /\ decode = NoDecode
    /\ module = NoModule
    /\ target \in {[wasm_64 |-> x, machine |-> {}] : x \in BOOLEAN}
    /\ \E x \in InputWords(target.wasm_64) :
           run = [NoRun EXCEPT !.a = x[1], !.b = x[2]]
    /\ kSimpleExprSigTable = NoSigTable
    /\ threads = NoThreads

\* BUILD(r, WASM_RETURN(WASM_UNOP(opcode, WASM_GET_LOCAL(0)))); a 32-bit
\* operator takes a 32-bit input word
BuildBitOp(opcode) ==
    /\ run.state = "idle"
    /\ IF opcode \in {"I32Ctz", "I32Popcnt"} THEN run.b = 0 ELSE target.wasm_64
    /\ Bind(Unop(B, opcode, Param(0)), LAMBDA b1 :
           /\ SetB(b1)
           /\ last' = CallRecord("Unop", opcode, <<Param(0)>>, B, b1))
    /\ run' = [run EXCEPT !.state = "ready"]
    /\ UNCHANGED <<module, target, env, locals, decode, kSimpleExprSigTable, threads>>

\* r.Call(x): the words the nodes of the lowered graph compute for the input
\* word; the call returns the word of node run.pc
CallBitOp ==
    /\ run.state = "ready"
    /\ run' = [run EXCEPT !.state = "done", !.pc = last.ret,
                          !.value = WordValues(
                              WordBits(run.a, run.b, WordWidth(last.opcode)),
                              <<>>)]
    /\ UNCHANGED <<nodes, graph_start, graph_end, control, effect, traps,
                   effects, mem_buffer, mem_size, function_table, fatal,
                   module, target, last, env, locals, decode,
                   kSimpleExprSigTable, threads>>

NextBits ==
    \/ \E opcode \in BitOpcodes : BuildBitOp(opcode)
    \/ CallBitOp

SpecBits == InitBits /\ [][NextBits]_vars

\* the input word of the last call, and the word width of its operator
InputWord == WordBits(run.a, run.b, WordWidth(last.opcode))

\* the number of trailing zero bits of word x: the position of its lowest
\* one bit, the word width for 0
TrailingZeros(x, w) ==
    IF x = {} THEN w ELSE CHOOSE i \in x : \A j \in x : i <= j

\* C23: the lowered count-trailing-zeros graph returns, for every input word,
\* the number of trailing zero bits of the word, and the word width for 0.
C23_CtzCounts ==
    run.state = "done" /\ last.opcode \in {"I32Ctz", "I64Ctz"} =>
        run.value[run.pc] =
            BitsOf32(TrailingZeros(InputWord, WordWidth(last.opcode)))

\* a 64-bit word whose lowest one bit is in its high word has been counted
C23_Witness ==
    /\ run.state = "done"
    /\ last.opcode = "I64Ctz"
    /\ run.a = 0
    /\ run.b = 65536
    /\ run.value[run.pc] = BitsOf32(48)

\* the zero word has been counted
CtzOfZeroCounted ==
    /\ run.state = "done"
    /\ last.opcode = "I32Ctz"
    /\ run.a = 0
    /\ run.value[run.pc] = BitsOf32(32)

\* the sums of the population count, in the order they are computed
AddNodes == NodesOf("Int32Add") \cup NodesOf("Int64Add")

\* the width of the fields of sum n: 2 for the first sum, doubling each step
FieldWidth(n) == 2^Cardinality({m \in AddNodes : m <= n})

\* the bits of word x in the field at base, moved down to bit 0
Field(x, base, width) ==
    {i - base : i \in x \cap (base..(base + width - 1))}

\* every field of sum n holds the number of one bits the input word has in
\* the field's bit range: the sum of the two halves did not leave the field
FieldsCount(n) ==
    \A base \in {f \in 0..(WordWidth(last.opcode) - 1) : f % FieldWidth(n) = 0} :
        Field(run.value[n], base, FieldWidth(n)) =
            BitsOf32(Cardinality(Field(InputWord, base, FieldWidth(n))))

\* C24: the lowered population-count graph returns exactly the number of one
\* bits of the input word, and no intermediate sum overflows its field.
C24_PopcntCounts ==
    run.state = "done" /\ last.opcode \in {"I32Popcnt", "I64Popcnt"} =>
        /\ run.value[run.pc] = BitsOf32(Cardinality(InputWord))
        /\ \A n \in AddNodes : FieldsCount(n)

\* the all-ones word, which fills every field of every partial sum
C24_Witness ==
    /\ run.state = "done"
    /\ last.opcode = "I64Popcnt"
    /\ run.a = -1
    /\ run.b = -1
    /\ Cardinality(AddNodes) = 6
    /\ run.value[run.pc] = BitsOf32(64)

-----------------------------------------------------------------------------
(* SpecLoad: LoadMem for every result type and memory access type          *)

LoadTypes == {"I32", "I64", "F64"}

\* a module with wasm semantics and one with asm.js semantics
LoadModules ==
    {[present |-> TRUE, asm_js |-> a, has_context |-> FALSE, size |-> 8] :
        a \in BOOLEAN}

InitLoad ==
    /\ InitCommon(1)
    /\ module \in LoadModules
    /\ target = [wasm_64 |-> TRUE, machine |-> {}]

\* LoadMem(type, memtype, get_local 0, 0)
DoLoadAny(type, memtype) ==
    /\ fatal = ""
    /\ last.n < MaxMemCalls
    /\ Bind(LoadMem(B, type, memtype, Param(0), 0), LAMBDA b1 :
           /\ SetB(b1)
           /\ last' = CallRecord("LoadMem", memtype, <<type, Param(0)>>, B, b1))
    /\ UNCHANGED <<module, target, env, locals, run, decode,
                   kSimpleExprSigTable, threads>>

NextLoad ==
    \E type \in LoadTypes, i \in 1..Len(MemTypes) : DoLoadAny(type, MemTypes[i])

SpecLoad == InitLoad /\ [][NextLoad]_vars

\* the call extends a narrow load to an i64 result
Extends == last.args[1] = "I64" /\ WasmOpcodesMemSize(last.opcode) < 8

\* the node is a 32-to-64-bit extension of the load the call created, of the
\* signedness of the access type
IsExtension(n) ==
    /\ n \in NewNodes
    /\ nodes[n].in = <<AccessNode>>
    /\ nodes[n].op \in {"ChangeInt32ToInt64", "ChangeUint32ToUint64"}
    /\ last.opcode \in {"I8", "I16", "I32"} => nodes[n].op = "ChangeInt32ToInt64"
    /\ last.opcode \in {"U8", "U16", "U32"} =>
           nodes[n].op = "ChangeUint32ToUint64"

\* C25: LoadMem with result type i64 and an access narrower than 8 bytes
\* returns a 32-to-64-bit extension of the load, sign-extending for i8, i16,
\* i32 and zero-extending for u8, u16, u32; the effect cursor is the load
\* itself, and every other combination returns the load unchanged.
C25_LoadExtension ==
    LastIsMem =>
        /\ nodes[AccessNode].op \in {"Load", "CheckedLoad"}
        /\ effect = AccessNode
        /\ IF Extends THEN IsExtension(last.ret) ELSE last.ret = AccessNode

\* a zero-extended load whose effect input is an earlier sign-extended load
C25_Witness ==
    /\ LastIsMem /\ last.n = 2
    /\ last.opcode = "U16" /\ Extends
    /\ nodes[last.ret].op = "ChangeUint32ToUint64"
    /\ nodes[last.effect].op = "Load"
    /\ last.effect \in Range(nodes[AccessNode].in)
    /\ \E n \in 1..last.len :
           nodes[n].op = "ChangeInt32ToInt64" /\ nodes[n].in = <<last.effect>>

-----------------------------------------------------------------------------
(* SpecReturn: Return(count, vals) on values kept in the builder's scratch *)
(* buffer                                                                  *)

\* Return calls per build
MaxReturns == 2

\* the capacity of the builder's buffer after construction
\* (cur_bufsize(kDefaultBufferSize))
kDefaultBufferSize == 16

\* the value counts of the calls: with and without room for the two extra
\* slots
Counts ==
    {0, 1, 2, kDefaultBufferSize - 2, kDefaultBufferSize - 1, kDefaultBufferSize}

\* TFBuilder::Realloc(vals, count + 2) moves the values to fresh storage when
\* count + 2 exceeds the capacity of the buffer
Moved(count, cur_bufsize) == count + 2 > cur_bufsize

\* TFBuilder::Return(count, vals) with vals == Buffer(count).  The effect and
\* the control cursor are stored at buf[count] and buf[count + 1], and the
\* node is created from vals[0 .. count + 1]: when Realloc moved the values,
\* the two last inputs are the words the old storage holds at and past its
\* end, here the pair beyond.
ReturnVals(b, vals, cur_bufsize, beyond) ==
    Bind(IF vals = <<>> THEN Int32Constant(b, 0) ELSE b, LAMBDA v :
    Bind(NewNode(v, "Return",
                 (IF vals = <<>> THEN <<v.ret>> ELSE vals) \o
                 (IF Moved(IF vals = <<>> THEN 1 ELSE Len(vals), cur_bufsize)
                  THEN beyond ELSE <<b.effect, b.control>>)), LAMBDA r :
    [MergeControlToEnd(r, r.ret) EXCEPT !.ret = r.ret]))

InitReturn ==
    /\ InitCommon(1)
    /\ module = NoModule
    /\ target = [wasm_64 |-> FALSE, machine |-> {}]

\* the words found in storage the call did not write: a null word, a cursor
\* stored by an earlier call, or a value
Stale == {0, effect, control, Param(0)}

\* Return(count, Buffer(count)) with every value get_local 0, on a buffer of
\* the default capacity
DoReturnVals(count, beyond) ==
    /\ fatal = ""
    /\ last.n < MaxReturns
    /\ Moved(IF count = 0 THEN 1 ELSE count, kDefaultBufferSize)
           \/ beyond = <<effect, control>>
    /\ Bind(ReturnVals(B, [i \in 1..count |-> Param(0)], kDefaultBufferSize,
                       beyond), LAMBDA b1 :
           /\ SetB(b1)
           /\ last' = CallRecord("Return", "", <<count>>, B, b1))
    /\ UNCHANGED <<module, target, env, locals, run, decode,
                   kSimpleExprSigTable, threads>>

NextReturn ==
    \E count \in Counts, s1 \in Stale, s2 \in Stale :
        DoReturnVals(count, <<s1, s2>>)

SpecReturn == InitReturn /\ [][NextReturn]_vars

\* the values of the last Return call
ReturnedVals ==
    IF last.args[1] = 0
    THEN <<CHOOSE n \in 1..Len(nodes) :
               nodes[n].op = "Int32Constant" /\ nodes[n].val = 0>>
    ELSE [i \in 1..last.args[1] |-> Param(0)]

\* C26: Return(count, vals) creates a Return node whose inputs are the count
\* values (one Int32 constant 0 when count = 0), then the current effect,
\* then the current control, for every count, also when count + 2 exceeds
\* the capacity of the buffer; the node is merged into End.
C26_ReturnInputs ==
    (last.call = "Return" /\ fatal = "") =>
        /\ nodes[last.ret].op = "Return"
        /\ nodes[last.ret].in = ReturnedVals \o <<last.effect, last.control>>
        /\ last.ret \in Range(nodes[graph_end].in)

\* the statement holds for the counts that leave room for the two cursors
C26_ReturnInputsInPlace ==
    (last.call = "Return" /\ fatal = ""
        /\ ~Moved(Len(ReturnedVals), kDefaultBufferSize)) =>
        /\ nodes[last.ret].op = "Return"
        /\ nodes[last.ret].in = ReturnedVals \o <<last.effect, last.control>>
        /\ last.ret \in Range(nodes[graph_end].in)

\* a Return of 15 values on the buffer of 16 slots
ReturnMoved ==
    /\ last.call = "Return"
    /\ Moved(last.args[1], kDefaultBufferSize)
    /\ nodes[last.ret].in[last.args[1] + 1] # last.effect

-----------------------------------------------------------------------------
(* SpecSig: WasmOpcodes::Signature called from several threads             *)

InitSig ==
    /\ InitCommon(1)
    /\ module = NoModule
    /\ target = [wasm_64 |-> FALSE, machine |-> {}]

\* the threads other than t that are inside a call
InCall(t) == {u \in Threads \ {t} : threads.call[u].pc # "idle"}

SigUnchanged ==
    UNCHANGED <<nodes, graph_start, graph_end, control, effect, traps,
                effects, mem_buffer, mem_size, function_table, fatal,
                module, target, last, env, locals, run, decode>>

\* thread t calls WasmOpcodes::Signature(opcode)
CallSignature(t, opcode) ==
    /\ threads.call[t].pc = "idle"
    /\ threads' =
           [threads EXCEPT !.call =
               [u \in Threads |->
                   IF u = t
                   THEN [pc |-> "check", opcode |-> opcode, todo |-> {},
                         result |-> "", warm |-> threads.returned,
                         pre |-> threads.prewarmed, alone |-> InCall(t) = {}]
                   ELSE IF u \in InCall(t)
                        THEN [threads.call[u] EXCEPT !.alone = FALSE]
                        ELSE threads.call[u]]]
    /\ UNCHANGED kSimpleExprSigTable
    /\ SigUnchanged

\* a call that initializes the table whatever it holds
CheckSigTableAlways(t) ==
    /\ threads.call[t].pc = "check"
    /\ threads' = [threads EXCEPT !.call[t].pc = "init",
                                  !.call[t].todo = SimpleOpcodes]
    /\ UNCHANGED kSimpleExprSigTable
    /\ SigUnchanged

\* if (kSimpleExprSigTable[kExprI32Add] == 0) InitSigTable();
CheckSigTable(t) ==
    /\ threads.call[t].pc = "check"
    /\ threads' =
           [threads EXCEPT !.call[t] =
               IF kSimpleExprSigTable["I32Add"] = 0
               THEN [@ EXCEPT !.pc = "init", !.todo = SimpleOpcodes]
               ELSE [@ EXCEPT !.pc = "read"]]
    /\ UNCHANGED kSimpleExprSigTable
    /\ SigUnchanged

\* InitSigTable, one store: kSimpleExprSigTable[opcode] = kSigEnum_<sig> + 1;
\* the stores are taken in any order
SetSigTable(t, opcode) ==
    /\ threads.call[t].pc = "init"
    /\ opcode \in threads.call[t].todo
    /\ kSimpleExprSigTable' =
           [kSimpleExprSigTable EXCEPT ![opcode] = SigEnum(opcode) + 1]
    /\ threads' =
           [threads EXCEPT
               !.call[t].todo = @ \ {opcode},
               !.call[t].pc = IF threads.call[t].todo = {opcode}
                              THEN "read" ELSE "init",
               !.late = @ \/ threads.returned,
               !.late_prewarmed = @ \/ threads.prewarmed]
    /\ SigUnchanged

\* return kSimpleExprSigs[kSimpleExprSigTable[opcode]];
ReturnSignature(t) ==
    /\ threads.call[t].pc = "read"
    /\ threads' =
           [threads EXCEPT
               !.call[t].pc = "idle",
               !.call[t].result =
                   kSimpleExprSigs[
                       kSimpleExprSigTable[threads.call[t].opcode] + 1],
               !.returned = TRUE,
               !.prewarmed = @ \/ InCall(t) = {}]
    /\ UNCHANGED kSimpleExprSigTable
    /\ SigUnchanged

NextSig ==
    \E t \in Threads :
        \/ \E opcode \in SigOpcodes : CallSignature(t, opcode)
        \/ CheckSigTable(t)
        \/ \E opcode \in SimpleOpcodes : SetSigTable(t, opcode)
        \/ ReturnSignature(t)

SpecSig == InitSig /\ [][NextSig]_vars

\* the signature sequential calls return for the opcode
SequentialSignature(opcode) ==
    IF opcode \in SimpleOpcodes THEN kSimpleExprSigs[SigEnum(opcode) + 2]
    ELSE "nullptr"

\* thread t has returned from a call with the signature of sequential calls
Returned(t) == threads.call[t].pc = "idle" /\ threads.call[t].opcode # ""

ReturnedRight(t) ==
    threads.call[t].result = SequentialSignature(threads.call[t].opcode)

\* C27, as stated: once one call has run to completion, concurrent Signature
\* calls perform no write to the table and return the results of sequential
\* calls.
C27_AfterAnyReturn ==
    /\ ~threads.late
    /\ \A t \in Threads :
           Returned(t) /\ threads.call[t].warm => ReturnedRight(t)

\* C27: Signature returns the same signature for the same opcode on every
\* call that no other call overlaps (nullptr for an opcode that is not
\* simple); once one call has run to completion while no other call was in
\* progress, no interleaving of concurrent calls writes the table, and the
\* calls return the results of sequential calls.
C27_AfterPrewarming ==
    /\ ~threads.late_prewarmed
    /\ \A t \in Threads :
           Returned(t) /\ threads.call[t].alone => ReturnedRight(t)
    /\ threads.prewarmed =>
           /\ \A opcode \in SimpleOpcodes :
                  kSimpleExprSigTable[opcode] = SigEnum(opcode) + 1
           /\ \A t \in Threads : threads.call[t].pc # "init"
           /\ \A t \in Threads :
                  Returned(t) /\ threads.call[t].pre => ReturnedRight(t)

\* two calls overlapped after the table was pre-warmed, and both returned
C27_Witness ==
    /\ threads.prewarmed
    /\ \A t \in Threads :
           /\ Returned(t) /\ threads.call[t].pre /\ ~threads.call[t].alone
           /\ threads.call[t].opcode \in SimpleOpcodes
    /\ threads.call[1].opcode # threads.call[2].opcode

-----------------------------------------------------------------------------
(* SpecBounds: memory accesses with static offsets over the whole 32-bit    *)
(* range                                                                   *)

\* mem_end - mem_start, up to the largest size an int32 holds
BoundSizes == {0, 8, 32, 2147483647}

\* static offsets as 32-bit words: small ones, 0x7FFFFFFC, 0xFFFFFFF8 and
\* 0xFFFFFFFC (offset + width wraps around for the last two)
WideOffsets == {0, 4, 28, 2147483644, -8, -4}

BoundModules ==
    {[present |-> TRUE, asm_js |-> FALSE, has_context |-> FALSE, size |-> size] :
        size \in BoundSizes}

InitBounds ==
    /\ InitCommon(2)
    /\ module \in BoundModules
    /\ target = [wasm_64 |-> TRUE, machine |-> {}]

NextBounds ==
    \/ \E memtype \in {"U8", "I32", "F64"}, offset \in WideOffsets :
           DoLoadMem(IF memtype = "F64" THEN "F64" ELSE "I32", memtype, offset)
    \/ \E offset \in WideOffsets : DoStoreMem("I16", offset)

SpecBounds == InitBounds /\ [][NextBounds]_vars

\* index values of an access, as 32-bit words, around the limits of the
\* sizes and offsets above
BoundIndexSamples == IndexSamples \cup {2, 3, 2147483639, 2147483646, -1}

\* all bytes of the access of width w at index + offset lie inside a memory
\* of the given size: index + offset + w <= size for the unsigned values of
\* the 32-bit words index and offset
Inside(index, offset, w, size) ==
    /\ index >= 0
    /\ offset >= 0
    /\ offset <= size
    /\ w <= size - offset
    /\ index <= size - offset - w

\* C28: whenever the emitted bounds check does not trap, all bytes of the
\* access lie inside the memory: index + offset + width <= mem_end -
\* mem_start without wrap-around, for every size, static offset, access width
\* and index.
C28_BoundsCheckSound ==
    LastIsMem =>
        \A i \in BoundIndexSamples :
            Admits(nodes[CheckBranch].in[1], i) =>
                Inside(i, last.args[2], WasmOpcodesMemSize(last.opcode),
                       module.size)

\* a one-byte access at offset 0x7FFFFFFC of the largest memory, admitted up
\* to the last index inside it
C28_Witness ==
    /\ LastIsMem
    /\ last.args[2] = 2147483644
    /\ module.size = 2147483647
    /\ Admits(nodes[CheckBranch].in[1], 2)
    /\ ~Admits(nodes[CheckBranch].in[1], 3)

-----------------------------------------------------------------------------
(* The cursors after TFBuilder::Unreachable()                              *)

LastIsUnreachable == last.call = "Unreachable" /\ fatal = ""

\* the call found the Unreachable trap block already built
BlockExisted == traps["Unreachable"] \in last.trap_merges

\* the cursors are where they were: on the control path that was trapped
CursorsOnTrappedPath == control = last.control /\ effect = last.effect

\* the cursors are nodes of the trap block the call created, which the trapped
\* path enters: the block's Merge and EffectPhi, or its runtime call
CursorsInTrapBlock ==
    /\ control \in NewNodes
    /\ effect \in NewNodes
    /\ nodes[traps["Unreachable"]].in = <<last.control>>
    /\ control # last.control

\* C29: Unreachable() has the same effect on the control and effect cursors
\* on its first use, when the trap block is built, as on every later use,
\* when the block is widened: of two uses in a row, either both leave the
\* cursors where they were or both move them.
C29_UnreachableUniform ==
    [][(LastIsUnreachable /\ LastIsUnreachable' /\ last'.n = last.n + 1) =>
           ((control' = control /\ effect' = effect) <=> CursorsOnTrappedPath)]_vars

\* what the code does: the first use leaves the cursors in the new trap
\* block, every later use leaves them on the trapped path
C29_FirstUseDiffers ==
    LastIsUnreachable =>
        IF BlockExisted THEN CursorsOnTrappedPath /\ ~CursorsInTrapBlock
        ELSE CursorsInTrapBlock /\ ~CursorsOnTrappedPath

\* a later use on a live path: a trap site stands between the two uses
LaterUseOnLivePath ==
    /\ LastIsUnreachable /\ BlockExisted
    /\ nodes[control].op \in {"IfTrue", "IfFalse"}
    /\ Len(nodes[traps["Unreachable"]].in) = 2

====
